---------------------------- MODULE Spec2Model ----------------------------
(***************************************************************************)
(* The AI model registry server (src/ai-registry-server.js): the           *)
(* AIModelRegistry class, its Express routes and its WebSocket fan-out;    *)
(* and the ModelClient of the client library (src/ai-registry-client.js),  *)
(* which queries a model's endpoint from a descriptor of the registry.     *)
(*                                                                         *)
(* JavaScript values are modelled as follows.                              *)
(*   - a string property is a TLA+ string; Undefined stands for a missing  *)
(*     (undefined) string property;                                        *)
(*   - a numeric property is a natural number; Null stands for null.       *)
(*     reliability (0.0 .. 1.0 in the source) is held in hundredths;       *)
(*   - an array property is [isArray |-> TRUE, items |-> S] (the           *)
(*     registry only asks arrays for membership), and JsNull is the value  *)
(*     null held where an array is expected;                               *)
(*   - an object received in a request body (modelData, criteria, the PUT  *)
(*     body) is a function whose DOMAIN is the set of keys it carries;     *)
(*   - a Map is the sequence of its entries [k, v] in insertion order.     *)
(* Of a model record the fields maxTokens, contextWindow, costPerToken,    *)
(* rateLimit, description, version and registeredBy are plain copies that  *)
(* no operation reads; they are left out.  The networks map is never       *)
(* written by the server and stays empty; it is left out too.              *)
(***************************************************************************)
EXTENDS Integers, Sequences, FiniteSets, TLC

VARIABLES
    models,      \* registry.models : Map id -> model record
    agents,      \* registry.agents : Map id -> agent record
    file,        \* the contents of ./ai-registry-data.json
    writing,     \* the document of the fs.writeFile call in flight, if any
    loadPc,      \* where the constructor's loadData() call stands
    wsClients,   \* registry.wsClients : the connected WebSocket clients
    wsMessage,   \* the message of the latest broadcastUpdate and who got it
    resp,        \* the outcome of the latest operation (the HTTP response)
    now,         \* the clock read by new Date()
    client,      \* a ModelClient (src/ai-registry-client.js) and its query
    requests,    \* the HTTP requests in flight to the registry
    returned,    \* what the latest call of the client library returned or threw
    cache,       \* AIRegistryClient.cache : Map key -> { data, timestamp }
    socket,      \* AIRegistryClient.ws, its reconnect timers and its messages
    orchestrator,  \* an AgentOrchestrator and its executeWithFallback call
    integrations,  \* a ModelIntegrations and its register... call
    monitor      \* a RegistryMonitor: its metrics

vars == <<models, agents, file, writing, loadPc, wsClients, wsMessage, resp, now,
          client, requests, returned, cache, socket, orchestrator, integrations,
          monitor>>

\* the variables of the registry server
registry == <<models, agents, file, writing, loadPc, wsClients, wsMessage, resp, now>>

\* the variables of the AIRegistryClient and of the programs built on it
library == <<requests, returned, cache, socket, orchestrator, integrations, monitor>>
\* the programs built on the AIRegistryClient, and the monitor
programs == <<orchestrator, integrations, monitor>>
\* no AIRegistryClient is at work
Quiet == UNCHANGED library

-----------------------------------------------------------------------------
(* Bounds of the model *)

\* the store holds at most this many model records (and as many agents)
MaxModels == 2
\* the clock stops advancing here
MaxClock == 1
\* at most this many HTTP requests are in flight to the registry, and as many
\* messages to the socket of a client
MaxInFlight == 1
\* the monitor keeps this many response times, where the program keeps 1000
ResponseTimeHistoryLimit == 2
\* the monitor keeps this many sightings of an agent, where the program keeps 100
LastSeenHistoryLimit == 2
\* at most this many requests are logged by a monitor
MaxRequests == 3

-----------------------------------------------------------------------------
(* JavaScript values *)

Undefined == "<undefined>"
Null == -1
JsNull == [isArray |-> FALSE, items |-> {}]
Arr(S) == [isArray |-> TRUE, items |-> S]

\* truthiness, as the || and && of the source test it
TruthyStr(s) == s # Undefined /\ s # ""
TruthyNum(n) == n # Null /\ n # 0
TruthyArr(a) == a.isArray

Has(obj, f) == f \in DOMAIN obj
\* {}: an object without own properties
EmptyObject == [key \in {} |-> 0]

\* obj.f || dflt, for each kind of property
OrStr(obj, f, dflt) == IF Has(obj, f) /\ TruthyStr(obj[f]) THEN obj[f] ELSE dflt
OrNum(obj, f, dflt) == IF Has(obj, f) /\ TruthyNum(obj[f]) THEN obj[f] ELSE dflt
OrArr(obj, f, dflt) == IF Has(obj, f) /\ TruthyArr(obj[f]) THEN obj[f] ELSE dflt
\* obj.f, undefined when the key is missing
GetStr(obj, f) == IF Has(obj, f) THEN obj[f] ELSE Undefined

\* null > n and null < n compare null as 0
ToNumber(n) == IF n = Null THEN 0 ELSE n

\* the property names every plain object inherits from Object.prototype, and
\* the function or object that reading one of them gives
ObjectPrototypeKeys ==
    {"constructor", "toString", "toLocaleString", "valueOf", "hasOwnProperty",
     "isPrototypeOf", "propertyIsEnumerable", "__proto__"}
Inherited(key) == [inherited |-> key]

-----------------------------------------------------------------------------
(* Map *)

MapKeys(m) == {m[i].k : i \in DOMAIN m}
MapHas(m, key) == key \in MapKeys(m)
MapGet(m, key) == m[CHOOSE i \in DOMAIN m : m[i].k = key].v
MapValues(m) == [i \in DOMAIN m |-> m[i].v]
MapSetAppend(m, key, val) == Append(m, [k |-> key, v |-> val])
MapSet(m, key, val) ==
    IF MapHas(m, key)
    THEN [i \in DOMAIN m |-> IF m[i].k = key THEN [k |-> key, v |-> val] ELSE m[i]]
    ELSE Append(m, [k |-> key, v |-> val])
MapDelete(m, key) == SelectSeq(m, LAMBDA e : e.k # key)

-----------------------------------------------------------------------------
(* AIModelRegistry.registerModel and registerAgent *)

DefaultSchema ==
    [requestFormat |-> "openai-compatible", responseFormat |-> "openai-compatible",
     streamingSupported |-> FALSE, authMethod |-> "api-key"]

\* the modelEntry object literal of registerModel
ModelEntry(modelData, modelId, timestamp) ==
    [id |-> modelId,
     name |-> GetStr(modelData, "name"),
     type |-> GetStr(modelData, "type"),
     provider |-> GetStr(modelData, "provider"),
     endpoint |-> GetStr(modelData, "endpoint"),
     apiKey |-> GetStr(modelData, "apiKey"),
     protocol |-> OrStr(modelData, "protocol", "https"),
     capabilities |-> OrArr(modelData, "capabilities", Arr({})),
     inputFormats |-> OrArr(modelData, "inputFormats", Arr({"text"})),
     outputFormats |-> OrArr(modelData, "outputFormats", Arr({"text"})),
     communicationSchema |->
         IF Has(modelData, "communicationSchema")
         THEN modelData["communicationSchema"] ELSE DefaultSchema,
     latencyMs |-> OrNum(modelData, "latencyMs", Null),
     reliability |-> OrNum(modelData, "reliability", 100),
     tags |-> OrArr(modelData, "tags", Arr({})),
     registeredAt |-> timestamp,
     lastSeen |-> timestamp,
     lastUpdated |-> timestamp,
     status |-> "active"]

ModelFields ==
    {"id", "name", "type", "provider", "endpoint", "apiKey", "protocol",
     "capabilities", "inputFormats", "outputFormats", "communicationSchema",
     "latencyMs", "reliability", "tags", "registeredAt", "lastSeen",
     "lastUpdated", "status"}

\* the agentEntry object literal of registerAgent (dashboardPort, capabilities,
\* availableModels, preferredModels, networkId, nodeUrl and registeredBy are
\* plain copies and left out)
AgentEntry(agentData, agentId, timestamp) ==
    [id |-> agentId,
     name |-> GetStr(agentData, "name"),
     type |-> OrStr(agentData, "type", "ultimate-agent"),
     endpoint |-> GetStr(agentData, "endpoint"),
     status |-> OrStr(agentData, "status", "online"),
     lastHeartbeat |-> timestamp,
     registeredAt |-> timestamp]

AgentFields ==
    {"id", "name", "type", "endpoint", "status", "lastHeartbeat", "registeredAt"}

\* the values uuidv4() returns
Uuids == {"uuid-1"}

-----------------------------------------------------------------------------
(* AIModelRegistry.findModels *)

\* x.includes(e) and the TypeError it raises when x is null
IncludesThrows(x) == ~x.isArray
Includes(x, e) == e \in x.items

\* one iteration of the for loop: does evaluating the eight conditions throw
MatchThrows(model, criteria) ==
    \/ /\ Has(criteria, "capability") /\ TruthyStr(criteria["capability"])
       /\ IncludesThrows(model.capabilities)
    \/ /\ Has(criteria, "inputFormat") /\ TruthyStr(criteria["inputFormat"])
       /\ IncludesThrows(model.inputFormats)
    \/ /\ Has(criteria, "outputFormat") /\ TruthyStr(criteria["outputFormat"])
       /\ IncludesThrows(model.outputFormats)
    \/ /\ Has(criteria, "tags") /\ TruthyArr(criteria["tags"])
       /\ criteria["tags"].items # {}
       /\ IncludesThrows(model.tags)

\* one iteration of the for loop: the value of matches after the eight ifs
Matches(model, criteria) ==
    /\ ~(/\ Has(criteria, "type") /\ TruthyStr(criteria["type"])
         /\ model.type # criteria["type"])
    /\ ~(/\ Has(criteria, "provider") /\ TruthyStr(criteria["provider"])
         /\ model.provider # criteria["provider"])
    /\ ~(/\ Has(criteria, "capability") /\ TruthyStr(criteria["capability"])
         /\ ~Includes(model.capabilities, criteria["capability"]))
    /\ ~(/\ Has(criteria, "inputFormat") /\ TruthyStr(criteria["inputFormat"])
         /\ ~Includes(model.inputFormats, criteria["inputFormat"]))
    /\ ~(/\ Has(criteria, "outputFormat") /\ TruthyStr(criteria["outputFormat"])
         /\ ~Includes(model.outputFormats, criteria["outputFormat"]))
    /\ ~(/\ Has(criteria, "maxLatency") /\ TruthyNum(criteria["maxLatency"])
         /\ ToNumber(model.latencyMs) > criteria["maxLatency"])
    /\ ~(/\ Has(criteria, "minReliability") /\ TruthyNum(criteria["minReliability"])
         /\ ToNumber(model.reliability) < criteria["minReliability"])
    /\ ~(/\ Has(criteria, "tags") /\ TruthyArr(criteria["tags"])
         /\ ~(\A tag \in criteria["tags"].items : Includes(model.tags, tag)))

\* a.latencyMs || 999999
LatencySentinel == 999999
LatencyKey(model) == IF TruthyNum(model.latencyMs) THEN model.latencyMs ELSE LatencySentinel

\* the comparator handed to results.sort: negative when a goes first
Compare(a, b) ==
    IF a.reliability # b.reliability
    THEN b.reliability - a.reliability
    ELSE LatencyKey(a) - LatencyKey(b)

\* Array.prototype.sort is stable: x goes before the first element it precedes
RECURSIVE InsertSorted(_, _)
InsertSorted(x, s) ==
    IF s = <<>> THEN <<x>>
    ELSE IF Compare(x, Head(s)) < 0 THEN <<x>> \o s
    ELSE <<Head(s)>> \o InsertSorted(x, Tail(s))

RECURSIVE SortResults(_)
SortResults(s) ==
    IF s = <<>> THEN <<>>
    ELSE InsertSorted(s[Len(s)], SortResults(SubSeq(s, 1, Len(s) - 1)))

\* findModels(criteria): whether it throws, and the sequence it returns
FindThrows(m, criteria) ==
    \E i \in DOMAIN m : MatchThrows(m[i].v, criteria)
FindModels(m, criteria) ==
    SortResults(SelectSeq(MapValues(m), LAMBDA model : Matches(model, criteria)))

-----------------------------------------------------------------------------
(* AIModelRegistry.getModelCommunication *)

\* `${model.endpoint}` and the like: undefined prints as "undefined"
TemplateStr(x) == IF x = Undefined THEN "undefined" ELSE x

Hidden == "***hidden***"
NullStr == "<null>"

RequestExamples(model) ==
    [openai |->
        [method |-> "POST",
         endpoint |-> TemplateStr(model.endpoint) \o "/v1/chat/completions",
         headers |-> {"Content-Type: application/json",
                      "Authorization: Bearer YOUR_API_KEY"},
         body |-> [model |-> model.name, messages |-> "Hello, how can you help me?",
                   max_tokens |-> 150, temperature |-> 70]],
     anthropic |->
        [method |-> "POST",
         endpoint |-> TemplateStr(model.endpoint) \o "/v1/messages",
         headers |-> {"Content-Type: application/json", "x-api-key: YOUR_API_KEY",
                      "anthropic-version: 2023-06-01"},
         body |-> [model |-> model.name, max_tokens |-> 150,
                   messages |-> "Hello, how can you help me?"]],
     ollama |->
        [method |-> "POST",
         endpoint |-> TemplateStr(model.endpoint) \o "/api/generate",
         headers |-> {"Content-Type: application/json"},
         body |-> [model |-> model.name, prompt |-> "Hello, how can you help me?",
                   stream |-> FALSE]]]

\* examples[format] || examples['openai-compatible']: examples is a plain
\* object, so a format that names an inherited property finds that property
generateExampleRequest(model) ==
    LET examples == RequestExamples(model)
        format == model.communicationSchema.requestFormat
    IN  CASE format = "anthropic" -> examples.anthropic
          [] format = "ollama" -> examples.ollama
          [] format \in ObjectPrototypeKeys -> Inherited(format)
          [] OTHER -> examples.openai

ResponseExamples(model, clock) ==
    [openai |->
        [id |-> "chatcmpl-123", object |-> "chat.completion", created |-> clock,
         model |-> model.name, role |-> "assistant",
         content |-> "Hello! I can help you with various tasks...",
         finish_reason |-> "stop"],
     anthropic |->
        [id |-> "msg_123", type |-> "message", role |-> "assistant",
         text |-> "Hello! I can help you with various tasks...",
         model |-> model.name, stop_reason |-> "end_turn"],
     ollama |->
        [model |-> model.name, created_at |-> clock,
         response |-> "Hello! I can help you with various tasks...",
         done |-> TRUE]]

generateExampleResponse(model, clock) ==
    LET examples == ResponseExamples(model, clock)
        format == model.communicationSchema.responseFormat
    IN  CASE format = "anthropic" -> examples.anthropic
          [] format = "ollama" -> examples.ollama
          [] format \in ObjectPrototypeKeys -> Inherited(format)
          [] OTHER -> examples.openai

MaskedKeyEcho(model) == model.apiKey
MaskedKey(model) == IF TruthyStr(model.apiKey) THEN Hidden ELSE NullStr

\* the object getModelCommunication returns for a stored model
Communication(model, clock) ==
    [id |-> model.id,
     name |-> model.name,
     endpoint |-> model.endpoint,
     protocol |-> model.protocol,
     communicationSchema |-> model.communicationSchema,
     authMethod |-> model.communicationSchema.authMethod,
     apiKey |-> MaskedKey(model),
     exampleRequest |-> generateExampleRequest(model),
     exampleResponse |-> generateExampleResponse(model, clock)]

-----------------------------------------------------------------------------
(* AIModelRegistry.getStats *)

\* the value of a property that holds a string, not a count
NotACount == -1

\* obj[key] = (obj[key] || 0) + 1 on a plain object: obj maps its own
\* properties to their values.  An inherited property reads as a function or
\* an object, which is truthy, and adding 1 to it gives a string; the string
\* becomes an own property, except that assigning a string to __proto__ is
\* ignored.  A string plus 1 is a string again.
Increment(obj, key) ==
    IF key \in DOMAIN obj
    THEN [obj EXCEPT ![key] = IF @ = NotACount THEN NotACount ELSE @ + 1]
    ELSE IF key = "__proto__" THEN obj
    ELSE [k \in DOMAIN obj \cup {key} |->
             IF k # key THEN obj[k]
             ELSE IF key \in ObjectPrototypeKeys THEN NotACount ELSE 1]

\* the loop over this.models.values() filling modelsByType or modelsByProvider
RECURSIVE CountBy(_, _)
CountBy(values, field) ==
    IF values = <<>> THEN EmptyObject
    ELSE Increment(CountBy(SubSeq(values, 1, Len(values) - 1), field),
                   TemplateStr(values[Len(values)][field]))

\* the object getStats returns (uptime is left out)
getStats(ms, as, clock) ==
    [totalModels |-> Len(ms),
     activeModels |-> Cardinality({i \in DOMAIN ms : ms[i].v.status = "active"}),
     totalAgents |-> Len(as),
     modelsByType |-> CountBy(MapValues(ms), "type"),
     modelsByProvider |-> CountBy(MapValues(ms), "provider"),
     lastUpdated |-> clock]

-----------------------------------------------------------------------------
(* AIModelRegistry.broadcastUpdate, and the responses of the routes *)

OpenClients == {c \in DOMAIN wsClients : wsClients[c] = "OPEN"}

\* the message broadcastUpdate builds and the clients it is sent to
Broadcast(event, data) ==
    [event |-> event, data |-> data, timestamp |-> now, to |-> OpenClients]

NoId == "<none>"
NoMessage == [event |-> "none", data |-> [id |-> NoId], timestamp |-> 0, to |-> {}]

\* res.json(...) / res.status(code).json(...): the operation answered, the HTTP
\* status, the id of the route, the model records the body carries, the
\* criteria it echoes, the communication object and the statistics
Response(op, code, id, carried, criteria, communication) ==
    [op |-> op, code |-> code, id |-> id, models |-> carried,
     criteria |-> criteria, communication |-> communication, stats |-> <<>>,
     agents |-> <<>>]

NoResponse == Response("none", 0, NoId, <<>>, <<>>, <<>>)

-----------------------------------------------------------------------------
(* loadData and saveData: the JSON document of ./ai-registry-data.json *)

StrFields == {"id", "name", "type", "provider", "endpoint", "apiKey", "protocol", "status"}

\* a model record built from the function that gives each of its properties
MakeModel(F) ==
    [id |-> F["id"], name |-> F["name"], type |-> F["type"],
     provider |-> F["provider"], endpoint |-> F["endpoint"], apiKey |-> F["apiKey"],
     protocol |-> F["protocol"], capabilities |-> F["capabilities"],
     inputFormats |-> F["inputFormats"], outputFormats |-> F["outputFormats"],
     communicationSchema |-> F["communicationSchema"], latencyMs |-> F["latencyMs"],
     reliability |-> F["reliability"], tags |-> F["tags"],
     registeredAt |-> F["registeredAt"], lastSeen |-> F["lastSeen"],
     lastUpdated |-> F["lastUpdated"], status |-> F["status"]]

MakeAgent(F) ==
    [id |-> F["id"], name |-> F["name"], type |-> F["type"],
     endpoint |-> F["endpoint"], status |-> F["status"],
     lastHeartbeat |-> F["lastHeartbeat"], registeredAt |-> F["registeredAt"]]

\* the keys an object enumerates first, in ascending numeric order: the
\* canonical array indices among the ids the requests use
ArrayIndex(key) == CASE key = "3" -> 3 [] key = "7" -> 7 [] OTHER -> -1
IsArrayIndex(key) == ArrayIndex(key) >= 0

RECURSIVE InsertByIndex(_, _)
InsertByIndex(e, s) ==
    IF s = <<>> THEN <<e>>
    ELSE IF ArrayIndex(e.k) < ArrayIndex(Head(s).k) THEN <<e>> \o s
    ELSE <<Head(s)>> \o InsertByIndex(e, Tail(s))

RECURSIVE SortByIndex(_)
SortByIndex(s) ==
    IF s = <<>> THEN <<>>
    ELSE InsertByIndex(s[Len(s)], SortByIndex(SubSeq(s, 1, Len(s) - 1)))

\* Object.fromEntries(map): the own properties in the order an object keeps them
FromEntries(m) ==
    SortByIndex(SelectSeq(m, LAMBDA e : IsArrayIndex(e.k)))
        \o SelectSeq(m, LAMBDA e : ~IsArrayIndex(e.k))

\* JSON.stringify of a record: a property whose value is undefined is left out
StringifyRecordDropsEmpty(r) ==
    [f \in {g \in DOMAIN r : ~(g \in StrFields /\ r[g] \in {Undefined, ""})} |-> r[f]]
StringifyRecord(r) ==
    [f \in {g \in DOMAIN r : ~(g \in StrFields /\ r[g] = Undefined)} |-> r[f]]

StringifyMap(m) ==
    LET obj == FromEntries(m)
    IN  [i \in DOMAIN obj |-> [k |-> obj[i].k, v |-> StringifyRecord(obj[i].v)]]

\* the document saveData writes
Stringify(ms, as, clock) ==
    [models |-> StringifyMap(ms), agents |-> StringifyMap(as), lastUpdated |-> clock]

\* reading a property of a parsed object: undefined when it is missing
ParsedModel(obj) ==
    MakeModel([f \in ModelFields |-> IF f \in DOMAIN obj THEN obj[f] ELSE Undefined])
ParsedAgent(obj) ==
    MakeAgent([f \in AgentFields |-> IF f \in DOMAIN obj THEN obj[f] ELSE Undefined])

\* new Map(Object.entries(parsed.models)) and new Map(Object.entries(parsed.agents))
LoadedModels(doc) ==
    [i \in DOMAIN doc.models |-> [k |-> doc.models[i].k, v |-> ParsedModel(doc.models[i].v)]]
LoadedAgents(doc) ==
    [i \in DOMAIN doc.agents |-> [k |-> doc.agents[i].k, v |-> ParsedAgent(doc.agents[i].v)]]

\* no file on disk, and a file JSON.parse rejects (fs.writeFile opens the
\* file with flag 'w': it is truncated, then filled)
NoFile == [models |-> <<>>, agents |-> <<>>, lastUpdated |-> -1]
Unparsable == [models |-> <<>>, agents |-> <<>>, lastUpdated |-> -2]
Readable(f) == f.lastUpdated >= 0
\* no fs.writeFile call is in flight
NoWrite == [models |-> <<>>, agents |-> <<>>, lastUpdated |-> -3]

-----------------------------------------------------------------------------
(* ModelClient (src/ai-registry-client.js): a query sent to a model endpoint *)

\* { ...a, ...b }
Merge(a, b) ==
    [key \in DOMAIN a \cup DOMAIN b |-> IF key \in DOMAIN b THEN b[key] ELSE a[key]]

UserMessages(prompt) == <<[role |-> "user", content |-> prompt]>>

buildRequestPlain(name, schema, prompt, options) == Merge([prompt |-> prompt], options)

\* buildRequest(prompt, options); temperature is held in hundredths
buildRequest(name, schema, prompt, options) ==
    LET format == schema.requestFormat
    IN  CASE format = "openai-compatible" ->
               Merge([model |-> name, messages |-> UserMessages(prompt),
                      max_tokens |-> OrNum(options, "maxTokens", 150),
                      temperature |-> OrNum(options, "temperature", 70)], options)
          [] format = "anthropic" ->
               Merge([model |-> name,
                      max_tokens |-> OrNum(options, "maxTokens", 150),
                      messages |-> UserMessages(prompt)], options)
          [] format = "ollama" ->
               [model |-> name, prompt |-> prompt, stream |-> FALSE,
                options |-> Merge([temperature |-> OrNum(options, "temperature", 70)],
                                  options)]
          [] OTHER -> Merge([prompt |-> prompt], options)

getEndpointPath(schema) ==
    LET format == schema.requestFormat
    IN  CASE format = "openai-compatible" -> "/v1/chat/completions"
          [] format = "anthropic" -> "/v1/messages"
          [] format = "ollama" -> "/api/generate"
          [] OTHER -> "/"

\* the headers sendRequest sets
RequestHeaders(communication) ==
    {"Content-Type: application/json", "User-Agent: AIRegistryClient/1.0"}
        \cup (IF /\ communication.communicationSchema.authMethod = "api-key"
                  /\ communication.apiKey # NullStr
               THEN IF communication.communicationSchema.requestFormat = "anthropic"
                    THEN {"x-api-key: " \o communication.apiKey,
                          "anthropic-version: 2023-06-01"}
                    ELSE {"Authorization: Bearer " \o communication.apiKey}
               ELSE {})

\* response.choices?.[0] and response.content?.[0]: the first element, an
\* object without properties standing for undefined
First(response, field) ==
    IF Has(response, field) /\ response[field] # <<>>
    THEN response[field][1] ELSE EmptyObject
\* response.choices?.[0]?.message?.content
MessageContent(response) ==
    LET choice == First(response, "choices")
    IN  IF Has(choice, "message") THEN GetStr(choice["message"], "content") ELSE Undefined

\* JSON.stringify(response), for the replies that reach it
JsonStringify(response) ==
    IF Has(response, "error") THEN "{\"error\":\"" \o response["error"] \o "\"}"
    ELSE IF Has(response, "text") THEN "{\"text\":\"" \o response["text"] \o "\"}"
    ELSE "{}"

\* a || b || c || d on strings
FirstTruthy(candidates) ==
    LET truthy == {i \in DOMAIN candidates : TruthyStr(candidates[i])}
    IN  IF truthy = {} THEN candidates[Len(candidates)]
        ELSE candidates[CHOOSE i \in truthy : \A j \in truthy : i <= j]

parseResponse(schema, response) ==
    LET format == schema.responseFormat
    IN  CASE format = "openai-compatible" ->
               FirstTruthy(<<MessageContent(response),
                             GetStr(First(response, "choices"), "text"),
                             "No response">>)
          [] format = "anthropic" ->
               FirstTruthy(<<GetStr(First(response, "content"), "text"), "No response">>)
          [] format = "ollama" ->
               FirstTruthy(<<GetStr(response, "response"), "No response">>)
          [] OTHER ->
               FirstTruthy(<<GetStr(response, "text"), GetStr(response, "response"),
                             GetStr(response, "output"), JsonStringify(response)>>)

\* the ModelClient and the query it runs: where the call stands, what was
\* sent, what the socket has delivered and what the promise settled with
Client(pc, communication, prompt, options, request, event, result) ==
    [pc |-> pc, communication |-> communication, prompt |-> prompt,
     options |-> options, request |-> request, event |-> event, result |-> result]

NoDescriptor == [name |-> Undefined]
NoRequest == [path |-> "", headers |-> {}, body |-> EmptyObject]
NoEvent == [type |-> "none", data |-> EmptyObject]
NoClient == Client("idle", NoDescriptor, "", EmptyObject, NoRequest, NoEvent, "")

\* query(prompt, options) up to the point where sendRequest has written the
\* request: the promise is pending
Query(descriptors, prompts, optionsSet) ==
    \E communication \in descriptors, prompt \in prompts, options \in optionsSet :
        /\ client.pc # "pending"
        /\ client' = Client("pending", communication, prompt, options,
                            [path |-> getEndpointPath(communication.communicationSchema),
                             headers |-> RequestHeaders(communication),
                             body |-> buildRequest(communication.name,
                                                   communication.communicationSchema,
                                                   prompt, options)],
                            NoEvent, "")
        /\ UNCHANGED registry

\* the endpoint answers: the socket delivers the body and 'end' is emitted
EndpointAnswers(replies) ==
    \E reply \in replies :
        /\ client.pc = "pending" /\ client.event = NoEvent
        /\ client' = [client EXCEPT !.event = [type |-> "end", data |-> reply]]
        /\ UNCHANGED registry

\* the endpoint answers with a body that is not JSON
EndpointAnswersGarbage ==
    /\ client.pc = "pending" /\ client.event = NoEvent
    /\ client' = [client EXCEPT !.event = [type |-> "garbage", data |-> EmptyObject]]
    /\ UNCHANGED registry

\* the connection is refused or reset: 'error' is emitted
ConnectionFails ==
    /\ client.pc = "pending" /\ client.event = NoEvent
    /\ client' = [client EXCEPT !.event = [type |-> "error", data |-> EmptyObject]]
    /\ UNCHANGED registry

\* res.on('end'): JSON.parse, resolve, and query returns parseResponse(response)
\* or rethrows the rejection
OnEnd ==
    /\ client.pc = "pending" /\ client.event.type \in {"end", "garbage"}
    /\ client' = IF client.event.type = "end"
                 THEN [client EXCEPT
                          !.pc = "resolved",
                          !.result = parseResponse(client.communication.communicationSchema,
                                                   client.event.data)]
                 ELSE [client EXCEPT !.pc = "rejected",
                                     !.result = "Invalid JSON response"]
    /\ UNCHANGED registry

\* req.on('error', reject)
OnError ==
    /\ client.pc = "pending" /\ client.event.type = "error"
    /\ client' = [client EXCEPT !.pc = "rejected", !.result = "error"]
    /\ UNCHANGED registry

-----------------------------------------------------------------------------
(* The operations.  Each takes the set its request is drawn from. *)

\* POST /api/models/register -> registerModel(req.body)
RegisterModel(payloads) ==
    \E modelData \in payloads :
      \E modelId \in (IF TruthyStr(GetStr(modelData, "id"))
                      THEN {modelData["id"]} ELSE Uuids \ MapKeys(models)) :
        LET modelEntry == ModelEntry(modelData, modelId, now)
        IN  /\ MapHas(models, modelId) \/ Len(models) < MaxModels
            /\ models' = MapSet(models, modelId, modelEntry)
            /\ wsMessage' = Broadcast("model_registered", modelEntry)
            /\ resp' = Response("registerModel", 200, modelId, <<modelEntry>>, <<>>, <<>>)
            /\ UNCHANGED <<agents, file, writing, loadPc, client, wsClients, now>>

\* POST /api/agents/register -> registerAgent(req.body)
RegisterAgent(payloads) ==
    \E agentData \in payloads :
      \E agentId \in (IF TruthyStr(GetStr(agentData, "id"))
                      THEN {agentData["id"]} ELSE Uuids \ MapKeys(agents)) :
        LET agentEntry == AgentEntry(agentData, agentId, now)
        IN  /\ agents' = MapSet(agents, agentId, agentEntry)
            /\ wsMessage' = Broadcast("agent_registered", agentEntry)
            /\ resp' = Response("registerAgent", 200, agentId, <<>>, <<>>, <<>>)
            /\ UNCHANGED <<models, file, writing, loadPc, client, wsClients, now>>

\* GET /api/models
ListModels ==
    /\ resp' = Response("listModels", 200, NoId, MapValues(models), <<>>, <<>>)
    /\ wsMessage' = NoMessage
    /\ UNCHANGED <<models, agents, file, writing, loadPc, client, wsClients, now>>

\* POST /api/models/find -> findModels(req.body); an exception thrown in the
\* handler is answered by Express with status 500
FindModelsRoute(criteriaSet) ==
    \E criteria \in criteriaSet :
        /\ resp' = IF FindThrows(models, criteria)
                   THEN Response("findModels", 500, NoId, <<>>, criteria, <<>>)
                   ELSE Response("findModels", 200, NoId, FindModels(models, criteria),
                                 criteria, <<>>)
        /\ wsMessage' = NoMessage
        /\ UNCHANGED <<models, agents, file, writing, loadPc, client, wsClients, now>>

\* GET /api/models/:id
GetModel(ids) ==
    \E modelId \in ids :
        /\ resp' = IF MapHas(models, modelId)
                   THEN Response("getModel", 200, modelId, <<MapGet(models, modelId)>>,
                                 <<>>, <<>>)
                   ELSE Response("getModel", 404, modelId, <<>>, <<>>, <<>>)
        /\ wsMessage' = NoMessage
        /\ UNCHANGED <<models, agents, file, writing, loadPc, client, wsClients, now>>

\* GET /api/models/:id/communication -> getModelCommunication(id)
GetModelCommunication(ids) ==
    \E modelId \in ids :
        /\ resp' = IF MapHas(models, modelId)
                   THEN Response("getModelCommunication", 200, modelId, <<>>, <<>>,
                                 <<Communication(MapGet(models, modelId), now)>>)
                   ELSE Response("getModelCommunication", 404, modelId, <<>>, <<>>, <<>>)
        /\ wsMessage' = NoMessage
        /\ UNCHANGED <<models, agents, file, writing, loadPc, client, wsClients, now>>

SpreadStale(existingModel, body, timestamp) ==
    MakeModel([f \in ModelFields |->
                  IF f \in DOMAIN body THEN body[f] ELSE existingModel[f]])

\* { ...existingModel, ...req.body, lastUpdated: new Date().toISOString() }
Spread(existingModel, body, timestamp) ==
    MakeModel([f \in ModelFields |->
                  IF f = "lastUpdated" THEN timestamp
                  ELSE IF f \in DOMAIN body THEN body[f]
                  ELSE existingModel[f]])

\* PUT /api/models/:id
UpdateModel(ids, bodies) ==
    \E modelId \in ids, body \in bodies :
        IF ~MapHas(models, modelId)
        THEN /\ resp' = Response("updateModel", 404, modelId, <<>>, <<>>, <<>>)
             /\ wsMessage' = NoMessage
             /\ UNCHANGED <<models, agents, file, writing, loadPc, client, wsClients, now>>
        ELSE LET updatedModel == Spread(MapGet(models, modelId), body, now)
             IN  /\ models' = MapSet(models, modelId, updatedModel)
                 /\ wsMessage' = Broadcast("model_updated", updatedModel)
                 /\ resp' = Response("updateModel", 200, modelId, <<updatedModel>>,
                                     <<>>, <<>>)
                 /\ UNCHANGED <<agents, file, writing, loadPc, client, wsClients, now>>

\* updateModelStatus(modelId, status): the heartbeat; it answers nothing
UpdateModelStatus(ids, statuses) ==
    \E modelId \in ids, status \in statuses :
        /\ resp' = Response("updateModelStatus", 0, modelId, <<>>, <<>>, <<>>)
        /\ IF MapHas(models, modelId)
           THEN LET model == [MapGet(models, modelId) EXCEPT
                                  !.lastSeen = now, !.status = status]
                IN  /\ models' = MapSet(models, modelId, model)
                    /\ wsMessage' = Broadcast("model_updated", model)
           ELSE /\ wsMessage' = NoMessage
                /\ UNCHANGED models
        /\ UNCHANGED <<agents, file, writing, loadPc, client, wsClients, now>>

DeleteModelNotifies(ids) ==
    \E modelId \in ids :
        /\ models' = MapDelete(models, modelId)
        /\ wsMessage' = Broadcast("model_removed", [id |-> modelId])
        /\ resp' = Response("deleteModel", IF MapHas(models, modelId) THEN 200 ELSE 404,
                            modelId, <<>>, <<>>, <<>>)
        /\ UNCHANGED <<agents, file, writing, loadPc, client, wsClients, now>>

\* DELETE /api/models/:id -> removeModel(id)
DeleteModel(ids) ==
    \E modelId \in ids :
        IF MapHas(models, modelId)
        THEN /\ models' = MapDelete(models, modelId)
             /\ wsMessage' = Broadcast("model_removed", [id |-> modelId])
             /\ resp' = Response("deleteModel", 200, modelId, <<>>, <<>>, <<>>)
             /\ UNCHANGED <<agents, file, writing, loadPc, client, wsClients, now>>
        ELSE /\ resp' = Response("deleteModel", 404, modelId, <<>>, <<>>, <<>>)
             /\ wsMessage' = NoMessage
             /\ UNCHANGED <<models, agents, file, writing, loadPc, client, wsClients, now>>

\* GET /api/stats -> getStats()
GetStats ==
    /\ resp' = [Response("getStats", 200, NoId, <<>>, <<>>, <<>>) EXCEPT
                    !.stats = <<getStats(models, agents, now)>>]
    /\ wsMessage' = NoMessage
    /\ UNCHANGED <<models, agents, file, writing, loadPc, client, wsClients, now>>

\* wss.on('connection'): a client joins wsClients
WsConnect(clients) ==
    \E c \in clients \ DOMAIN wsClients :
        /\ wsClients' = [d \in DOMAIN wsClients \cup {c} |->
                            IF d = c THEN "OPEN" ELSE wsClients[d]]
        /\ resp' = Response("wsConnect", 0, NoId, <<>>, <<>>, <<>>)
        /\ wsMessage' = NoMessage
        /\ UNCHANGED <<models, agents, file, writing, loadPc, client, now>>

\* a client's socket starts its closing handshake: readyState is CLOSING until
\* the 'close' event is emitted
WsClosing ==
    \E c \in OpenClients :
        /\ wsClients' = [wsClients EXCEPT ![c] = "CLOSING"]
        /\ resp' = Response("wsClosing", 0, NoId, <<>>, <<>>, <<>>)
        /\ wsMessage' = NoMessage
        /\ UNCHANGED <<models, agents, file, writing, loadPc, client, now>>

\* ws.on('close'): the client leaves wsClients
WsClose ==
    \E c \in DOMAIN wsClients :
        /\ wsClients' = [d \in DOMAIN wsClients \ {c} |-> wsClients[d]]
        /\ resp' = Response("wsClose", 0, NoId, <<>>, <<>>, <<>>)
        /\ wsMessage' = NoMessage
        /\ UNCHANGED <<models, agents, file, writing, loadPc, client, now>>

\* the loadData() call of the constructor completes: the file is read and
\* parsed, or the catch block starts fresh
LoadData ==
    /\ loadPc = "reading"
    /\ loadPc' = "done"
    /\ IF Readable(file)
       THEN /\ models' = LoadedModels(file)
            /\ agents' = LoadedAgents(file)
       ELSE UNCHANGED <<models, agents>>
    /\ resp' = Response("loadData", 0, NoId, <<>>, <<>>, <<>>)
    /\ wsMessage' = NoMessage
    /\ UNCHANGED <<file, writing, wsClients, now, client>>

\* the 30 s timer, or SIGTERM: saveData() builds the document from the maps,
\* stringifies it and hands it to fs.writeFile, all before it first awaits.
\* The timer fires every 30 s: a save starts once the one before has settled.
SaveData ==
    /\ writing = NoWrite
    /\ writing' = Stringify(models, agents, now)
    /\ UNCHANGED file
    /\ resp' = Response("saveData", 0, NoId, <<>>, <<>>, <<>>)
    /\ wsMessage' = NoMessage
    /\ UNCHANGED <<models, agents, loadPc, client, wsClients, now>>

WriteFileDoneLate ==
    /\ writing # NoWrite
    /\ file' = Stringify(models, agents, now)
    /\ writing' = NoWrite
    /\ resp' = Response("writeFile", 0, NoId, <<>>, <<>>, <<>>)
    /\ wsMessage' = NoMessage
    /\ UNCHANGED <<models, agents, loadPc, client, wsClients, now>>

\* the promise of fs.writeFile resolves: the file holds the document
WriteFileDone ==
    /\ writing # NoWrite
    /\ file' = writing
    /\ writing' = NoWrite
    /\ resp' = Response("writeFile", 0, NoId, <<>>, <<>>, <<>>)
    /\ wsMessage' = NoMessage
    /\ UNCHANGED <<models, agents, loadPc, client, wsClients, now>>

\* what a write that did not complete leaves on disk: the file as it was (it
\* was never opened) or a truncated, partly written file
CutShort(f) == {f, Unparsable}

WriteFileFailsUncaught ==
    /\ writing # NoWrite
    /\ file' \in CutShort(file)
    /\ writing' = NoWrite
    /\ models' = <<>>
    /\ agents' = <<>>
    /\ wsClients' = <<>>
    /\ loadPc' = "reading"
    /\ resp' = Response("writeFile", 500, NoId, <<>>, <<>>, <<>>)
    /\ wsMessage' = NoMessage
    /\ UNCHANGED <<now, client>>

\* the promise of fs.writeFile rejects (the file cannot be opened, the disk is
\* full): the catch block of saveData logs the error
WriteFileFails ==
    /\ writing # NoWrite
    /\ file' \in CutShort(file)
    /\ writing' = NoWrite
    /\ resp' = Response("writeFile", 500, NoId, <<>>, <<>>, <<>>)
    /\ wsMessage' = NoMessage
    /\ UNCHANGED <<models, agents, loadPc, client, wsClients, now>>

\* the process ends (a crash, or process.exit after SIGTERM) and a new one is
\* started: new AIModelRegistry().  A write in flight is cut short, or had
\* put the whole document on disk already.
Restart ==
    /\ models' = <<>>
    /\ agents' = <<>>
    /\ wsClients' = <<>>
    /\ file' \in (IF writing = NoWrite THEN {file} ELSE CutShort(file) \cup {writing})
    /\ writing' = NoWrite
    /\ loadPc' = "reading"
    /\ resp' = NoResponse
    /\ wsMessage' = NoMessage
    /\ UNCHANGED <<now, client>>

\* time passes
Tick ==
    /\ now < MaxClock
    /\ now' = now + 1
    /\ resp' = Response("tick", 0, NoId, <<>>, <<>>, <<>>)
    /\ wsMessage' = NoMessage
    /\ UNCHANGED <<models, agents, file, writing, loadPc, client, wsClients>>

-----------------------------------------------------------------------------
(* AIRegistryClient.makeRequest (src/ai-registry-client.js) and the registry
   answering it *)

\* a request written by makeRequest(method, path, data): the client method
\* that sent it, the method and the route of the path, the id the path holds,
\* the body, and what the registry has answered (statusCode, whether the body
\* is JSON, and the response).  since is history: how many model events the
\* registry has sent the client after it made the answer.
Request(op, method, route, id, body) ==
    [op |-> op, method |-> method, route |-> route, id |-> id, body |-> body,
     state |-> "sent", statusCode |-> 0, json |-> FALSE, reply |-> NoResponse,
     since |-> 0]

\* the routes of the Express app
Routes ==
    {<<"GET", "/api/info">>,
     <<"POST", "/api/models/register">>,
     <<"GET", "/api/models">>,
     <<"POST", "/api/models/find">>,
     <<"GET", "/api/models/:id">>,
     <<"GET", "/api/models/:id/communication">>,
     <<"PUT", "/api/models/:id">>,
     <<"DELETE", "/api/models/:id">>,
     <<"POST", "/api/agents/register">>,
     <<"GET", "/api/agents">>,
     <<"GET", "/health">>,
     <<"GET", "/api/stats">>}

Routed(request) == <<request.method, request.route>> \in Routes

\* the requests the registry has not answered yet
Unanswered == {i \in DOMAIN requests : requests[i].state = "sent"}
Answered == {i \in DOMAIN requests : requests[i].state = "answered"}
\* the requests whose promise is about to settle: 'end', 'error' or 'timeout'
\* has been emitted
Settled == {i \in DOMAIN requests : requests[i].state \in {"answered", "failed"}}

\* res.json(...) or res.status(code).json(...) of a route answers request i
AnsweredBy(i, response) ==
    [requests EXCEPT ![i].state = "answered", ![i].statusCode = response.code,
                     ![i].json = TRUE, ![i].reply = response]

\* the sequence without its element i
Without(seq, i) == SubSeq(seq, 1, i - 1) \o SubSeq(seq, i + 1, Len(seq))

\* what a call of the client library returned (value) or threw (error), and
\* whether the value came from the registry or from the cache; since is the
\* history of the value
Return(op, id, value, error) ==
    [op |-> op, id |-> id, value |-> value, error |-> error,
     source |-> "registry", since |-> 0]
NoReturn == Return("none", NoId, <<>>, FALSE)

\* no WebSocket, no orchestrator, no integrations and no monitor were made
NoSocket == [readyState |-> "none", inbox |-> <<>>, timers |-> <<>>, build |-> "none", live |-> 0]
NoOrchestrator == [pc |-> "none"]
NoIntegrations == [pc |-> "none"]
NoMonitor == [pc |-> "none", file |-> <<>>]

\* the 'end' handler of makeRequest: the promise resolves with the parsed body
\* of a 2xx answer, and rejects for any other status and for a body that is
\* not JSON
Resolves(request) ==
    /\ request.json
    /\ request.statusCode >= 200 /\ request.statusCode < 300

\* no route matches: Express's final handler answers 404 with an HTML page
\* ("Cannot PUT /api/agents/agent-7")
NoRoute ==
    \E i \in Unanswered :
        /\ ~Routed(requests[i])
        /\ resp' = Response("noRoute", 404, requests[i].id, <<>>, <<>>, <<>>)
        /\ requests' = [requests EXCEPT ![i].state = "answered", ![i].statusCode = 404,
                                        ![i].json = FALSE, ![i].reply = resp']
        /\ wsMessage' = NoMessage
        /\ UNCHANGED <<models, agents, file, writing, loadPc, client, wsClients, now>>
        /\ UNCHANGED <<returned, cache, socket, programs>>

\* a program posts a registration: POST /api/models/register with the body
PostRegisterModel(payloads) ==
    \E modelData \in payloads :
        /\ Len(requests) < MaxInFlight
        /\ requests' = Append(requests,
                              Request("post", "POST", "/api/models/register",
                                      GetStr(modelData, "id"), modelData))
        /\ UNCHANGED <<registry, client, returned, cache, socket, programs>>

\* POST /api/models/register for a request in flight
ServeRegisterModel ==
    \E i \in Unanswered :
        /\ requests[i].method = "POST" /\ requests[i].route = "/api/models/register"
        /\ RegisterModel({requests[i].body})
        /\ requests' = AnsweredBy(i, resp')
        /\ UNCHANGED <<returned, cache, socket, programs>>

\* the answer reaches the program that posted
PostAnswered ==
    \E i \in Answered :
        /\ requests[i].op = "post"
        /\ requests' = Without(requests, i)
        /\ UNCHANGED <<registry, client, returned, cache, socket, programs>>

\* POST /api/agents/register for a request of the client
ServeRegisterAgent ==
    \E i \in Unanswered :
        /\ requests[i].method = "POST" /\ requests[i].route = "/api/agents/register"
        /\ RegisterAgent({requests[i].body})
        /\ requests' = AnsweredBy(i, resp')
        /\ UNCHANGED <<returned, cache, socket, programs>>

\* GET /api/agents
ListAgents ==
    /\ resp' = [Response("listAgents", 200, NoId, <<>>, <<>>, <<>>) EXCEPT
                    !.agents = MapValues(agents)]
    /\ wsMessage' = NoMessage
    /\ UNCHANGED <<models, agents, file, writing, loadPc, client, wsClients, now>>

\* registerAgent(agentInfo) up to its await
ClientRegisterAgent(infos) ==
    \E agentInfo \in infos :
        /\ Len(requests) < MaxInFlight
        /\ requests' = Append(requests,
                              Request("registerAgent", "POST", "/api/agents/register",
                                      GetStr(agentInfo, "id"), agentInfo))
        /\ UNCHANGED <<registry, client, returned, cache, socket, programs>>

\* updateAgentStatus(agentId, status) up to its await
ClientUpdateAgentStatus(ids, statuses) ==
    \E agentId \in ids, status \in statuses :
        /\ Len(requests) < MaxInFlight
        /\ requests' = Append(requests,
                              Request("updateAgentStatus", "PUT", "/api/agents/:id",
                                      agentId, status))
        /\ UNCHANGED <<registry, client, returned, cache, socket, programs>>

\* the answer to registerAgent arrives: the response is returned, or the
\* error is logged and thrown again
RegisterAgentReturns ==
    \E i \in Answered :
        /\ requests[i].op = "registerAgent"
        /\ returned' = IF Resolves(requests[i])
                       THEN Return("registerAgent", requests[i].reply.id,
                                   <<requests[i].reply>>, FALSE)
                       ELSE Return("registerAgent", requests[i].id, <<>>, TRUE)
        /\ requests' = Without(requests, i)
        /\ UNCHANGED <<registry, client, cache, socket, programs>>

\* the answer to updateAgentStatus arrives: true, or the error is logged and
\* false returned
UpdateAgentStatusReturns ==
    \E i \in Answered :
        /\ requests[i].op = "updateAgentStatus"
        /\ returned' = Return("updateAgentStatus", requests[i].id,
                              <<Resolves(requests[i])>>, FALSE)
        /\ requests' = Without(requests, i)
        /\ UNCHANGED <<registry, client, cache, socket, programs>>

-----------------------------------------------------------------------------
(* AIRegistryClient (src/ai-registry-client.js): the cache of findModels and
   getModelCommunication, and the subscription that clears it *)

\* options.cacheTimeout, in ticks of the clock
CacheTimeout == 1

\* the cache keys: JSON.stringify(criteria), which starts with '{', and
\* `communication:${modelId}`
FindKey(criteria) == [prefix |-> "{", criteria |-> criteria, id |-> ""]
CommunicationKey(modelId) == [prefix |-> "communication:", criteria |-> <<>>, id |-> modelId]

YoungAlways(cached, clock) == TRUE
\* Date.now() - cached.timestamp < this.cacheTimeout
Young(cached, clock) == clock - cached.timestamp < CacheTimeout

\* this.cache.has(cacheKey) and the entry is young: return cached.data
Hit(cacheKey) == MapHas(cache, cacheKey) /\ Young(MapGet(cache, cacheKey), now)
Cached(op, id, cacheKey) ==
    [Return(op, id, MapGet(cache, cacheKey).data, FALSE) EXCEPT
        !.source = "cache", !.since = MapGet(cache, cacheKey).since]

\* typeof window !== 'undefined': the client runs in a browser, with
\* window.WebSocket, or in Node, with require('ws')
Builds == {"browser", "node"}

\* setTimeout(() => this.subscribeToUpdates(), 5000)
ReconnectDelay == 5000

\* new AIRegistryClient(registryUrl): subscribeToUpdates() makes the
\* WebSocket, the one live socket of the client
NewAIRegistryClient ==
    \E build \in Builds :
        /\ socket = NoSocket
        /\ socket' = [socket EXCEPT !.readyState = "CONNECTING", !.build = build,
                                    !.live = 1]
        /\ UNCHANGED <<registry, client, requests, returned, cache, programs>>

\* the registry accepts the connection: wss.on('connection') there, and the
\* socket of the client is open
SocketOpens ==
    /\ socket.readyState = "CONNECTING"
    /\ WsConnect({"client"})
    /\ socket' = [socket EXCEPT !.readyState = "OPEN"]
    /\ UNCHANGED <<requests, returned, cache, programs>>

\* this.ws.onclose: one timer for subscribeToUpdates
Scheduled(timers) == Append(timers, ReconnectDelay)

\* the connection ends, here and at the registry: this.ws.onclose
SocketCloses ==
    /\ socket.readyState = "OPEN"
    /\ "client" \in DOMAIN wsClients
    /\ WsClose
    /\ "client" \notin DOMAIN wsClients'
    /\ socket' = [socket EXCEPT !.readyState = "CLOSED", !.live = @ - 1,
                                !.inbox = <<>>, !.timers = Scheduled(@)]
    /\ UNCHANGED <<requests, returned, cache, programs>>

\* the registry cannot be reached when the socket connects.  A browser emits
\* 'error' and 'close', and onclose runs.  The WebSocket of ws emits 'error'
\* first; the client has set no handler for it, so the emit throws in an
\* event handler and the Node process ends with its timers
SocketRefused ==
    /\ socket.readyState = "CONNECTING"
    /\ socket' = IF socket.build = "browser"
                 THEN [socket EXCEPT !.readyState = "CLOSED", !.live = @ - 1,
                                     !.timers = Scheduled(@)]
                 ELSE [socket EXCEPT !.readyState = "gone", !.live = 0,
                                     !.inbox = <<>>, !.timers = <<>>]
    /\ UNCHANGED <<registry, client, requests, returned, cache, programs>>

\* the timer of onclose fires: subscribeToUpdates() makes a new WebSocket
TimerFires ==
    /\ socket.timers # <<>>
    /\ socket' = [socket EXCEPT !.timers = Tail(@), !.readyState = "CONNECTING",
                                !.live = @ + 1]
    /\ UNCHANGED <<registry, client, requests, returned, cache, programs>>

\* findModels(criteria) up to its return from the cache or its await
ClientFindModels(criteriaSet) ==
    \E criteria \in criteriaSet :
        /\ socket # NoSocket
        /\ IF Hit(FindKey(criteria))
           THEN /\ returned' = Cached("findModels", NoId, FindKey(criteria))
                /\ UNCHANGED requests
           ELSE /\ Len(requests) < MaxInFlight
                /\ requests' = Append(requests,
                                      Request("findModels", "POST", "/api/models/find",
                                              NoId, criteria))
                /\ UNCHANGED returned
        /\ UNCHANGED <<registry, client, cache, socket, programs>>

\* getModelCommunication(modelId) up to its return from the cache or its await
ClientGetModelCommunication(ids) ==
    \E modelId \in ids :
        /\ socket # NoSocket
        /\ IF Hit(CommunicationKey(modelId))
           THEN /\ returned' = Cached("getModelCommunication", modelId,
                                      CommunicationKey(modelId))
                /\ UNCHANGED requests
           ELSE /\ Len(requests) < MaxInFlight
                /\ requests' = Append(requests,
                                      Request("getModelCommunication", "GET",
                                              "/api/models/:id/communication",
                                              modelId, <<>>))
                /\ UNCHANGED returned
        /\ UNCHANGED <<registry, client, cache, socket, programs>>

\* POST /api/models/find for a request of the client
ServeFind ==
    \E i \in Unanswered :
        /\ requests[i].method = "POST" /\ requests[i].route = "/api/models/find"
        /\ FindModelsRoute({requests[i].body})
        /\ requests' = AnsweredBy(i, resp')
        /\ UNCHANGED <<returned, cache, socket, programs>>

\* GET /api/models/:id/communication for a request of the client
ServeCommunication ==
    \E i \in Unanswered :
        /\ requests[i].method = "GET"
        /\ requests[i].route = "/api/models/:id/communication"
        /\ GetModelCommunication({requests[i].id})
        /\ requests' = AnsweredBy(i, resp')
        /\ UNCHANGED <<returned, cache, socket, programs>>

\* the connection fails or the timeout passes: 'error' or 'timeout' is
\* emitted, and the promise of makeRequest will reject
RequestFails ==
    \E i \in Unanswered :
        /\ requests' = [requests EXCEPT ![i].state = "failed"]
        /\ UNCHANGED <<registry, client, returned, cache, socket, programs>>

\* this.cache.set(cacheKey, { data, timestamp: Date.now() }) when the promise
\* of makeRequest has resolved; the catch block leaves the cache alone
Caches(i, cacheKey, data) ==
    IF Resolves(requests[i])
    THEN MapSet(cache, cacheKey,
                [data |-> data, timestamp |-> now, since |-> requests[i].since])
    ELSE cache

\* the promise of makeRequest settles in findModels: the models are cached
\* and returned, or the error is logged and thrown again
FindModelsReturns ==
    \E i \in Settled :
        /\ requests[i].op = "findModels"
        /\ cache' = Caches(i, FindKey(requests[i].body), requests[i].reply.models)
        /\ returned' =
               IF Resolves(requests[i])
               THEN [Return("findModels", NoId, requests[i].reply.models, FALSE)
                        EXCEPT !.since = requests[i].since]
               ELSE Return("findModels", NoId, <<>>, TRUE)
        /\ requests' = Without(requests, i)
        /\ UNCHANGED <<registry, client, socket, programs>>

\* the promise of makeRequest settles in getModelCommunication
GetModelCommunicationReturns ==
    \E i \in Settled :
        /\ requests[i].op = "getModelCommunication"
        /\ cache' = Caches(i, CommunicationKey(requests[i].id),
                           requests[i].reply.communication)
        /\ returned' =
               IF Resolves(requests[i])
               THEN [Return("getModelCommunication", requests[i].id,
                            requests[i].reply.communication, FALSE)
                        EXCEPT !.since = requests[i].since]
               ELSE Return("getModelCommunication", requests[i].id, <<>>, TRUE)
        /\ requests' = Without(requests, i)
        /\ UNCHANGED <<registry, client, socket, programs>>

ModelEvents == {"model_registered", "model_updated", "model_removed"}
ModelMessages(inbox) == SelectSeq(inbox, LAMBDA message : message.event \in ModelEvents)

\* one more model event was sent after the answer or the entry was made
Outdated(since) == IF since > MaxInFlight THEN since ELSE since + 1

\* broadcastUpdate has sent its message to the socket of the client, if that
\* is among the open ones
Pushed ==
    IF "client" \in wsMessage'.to
    THEN /\ Len(socket.inbox) < MaxInFlight
         /\ socket' = [socket EXCEPT !.inbox = Append(@, wsMessage')]
         /\ IF wsMessage'.event \in ModelEvents
            THEN /\ requests' = [i \in DOMAIN requests |->
                                    IF requests[i].state = "answered"
                                    THEN [requests[i] EXCEPT !.since = Outdated(@)]
                                    ELSE requests[i]]
                 /\ cache' = [n \in DOMAIN cache |->
                                 [cache[n] EXCEPT !.v.since = Outdated(@)]]
            ELSE UNCHANGED <<requests, cache>>
         /\ UNCHANGED <<returned, programs>>
    ELSE Quiet

\* this.ws.onmessage: handleRegistryUpdate(message) deletes, for a model
\* event, every key that starts with '{' or with 'communication:'
OnMessage ==
    /\ socket.inbox # <<>>
    /\ socket' = [socket EXCEPT !.inbox = Tail(@)]
    /\ cache' = IF Head(socket.inbox).event \in ModelEvents
                THEN SelectSeq(cache, LAMBDA entry :
                                   entry.k.prefix \notin {"{", "communication:"})
                ELSE cache
    /\ UNCHANGED <<registry, client, requests, returned, programs>>

-----------------------------------------------------------------------------
(* AgentOrchestrator (src/complete-readme.md): registerAgentWithFallbacks and
   executeWithFallback.  The orchestrator has an AIRegistryClient of its own;
   what its discoverModel, createModelClient and query calls give is an input
   of the attempt that makes them. *)

\* no executeWithFallback call was made yet
NoCall ==
    [pc |-> "idle", agentId |-> NoId, task |-> EmptyObject, maxRetries |-> 0,
     allOptions |-> <<>>, i |-> 0, attempts |-> <<>>, outcome |-> "none",
     result |-> ""]

\* task is undefined: executeWithFallback(agentId) without a task
NoTask == [undefined |-> TRUE]

\* new AgentOrchestrator()
NewAgentOrchestrator ==
    /\ orchestrator = NoOrchestrator
    /\ orchestrator' = [pc |-> "ready", fallbackChains |-> EmptyObject,
                        registering |-> <<>>, call |-> NoCall]
    /\ UNCHANGED <<registry, client, requests, returned, cache, socket,
                   integrations, monitor>>

\* registerAgentWithFallbacks(agentInfo, fallbackChain) up to the await of
\* this.registry.registerAgent(agentInfo)
RegisterAgentWithFallbacks(infos, chains) ==
    \E agentInfo \in infos, fallbackChain \in chains :
        /\ orchestrator.pc = "ready" /\ orchestrator.registering = <<>>
        /\ Len(requests) < MaxInFlight
        /\ requests' = Append(requests,
                              Request("registerAgentWithFallbacks", "POST",
                                      "/api/agents/register",
                                      GetStr(agentInfo, "id"), agentInfo))
        /\ orchestrator' = [orchestrator EXCEPT !.registering = <<fallbackChain>>]
        /\ UNCHANGED <<registry, client, returned, cache, socket, integrations, monitor>>

\* the registration is answered: this.fallbackChains.set(agentInfo.id,
\* fallbackChain), or the error of registerAgent is thrown on
RegisterAgentWithFallbacksReturns ==
    \E i \in Answered :
        /\ requests[i].op = "registerAgentWithFallbacks"
        /\ IF Resolves(requests[i])
           THEN /\ orchestrator' =
                       [orchestrator EXCEPT
                           !.registering = <<>>,
                           !.fallbackChains =
                               Merge(@, [key \in {requests[i].id} |->
                                            orchestrator.registering[1]])]
                /\ returned' = Return("registerAgentWithFallbacks", requests[i].id,
                                      <<requests[i].reply>>, FALSE)
           ELSE /\ orchestrator' = [orchestrator EXCEPT !.registering = <<>>]
                /\ returned' = Return("registerAgentWithFallbacks", requests[i].id,
                                      <<>>, TRUE)
        /\ requests' = Without(requests, i)
        /\ UNCHANGED <<registry, client, cache, socket, integrations, monitor>>

\* executeWithFallback(agentId, task, maxRetries) up to the loop
ExecuteWithFallback(ids, tasks, retries) ==
    \E agentId \in ids, task \in tasks, maxRetries \in retries :
        /\ orchestrator.pc = "ready"
        /\ orchestrator.call.pc \in {"idle", "done"}
        /\ LET fallbackChain == IF agentId \in DOMAIN orchestrator.fallbackChains
                                THEN orchestrator.fallbackChains[agentId] ELSE <<>>
           IN  orchestrator' =
                   [orchestrator EXCEPT
                       !.call = [pc |-> "loop", agentId |-> agentId, task |-> task,
                                 maxRetries |-> maxRetries,
                                 allOptions |-> <<agentId>> \o fallbackChain,
                                 i |-> 0, attempts |-> <<>>, outcome |-> "none",
                                 result |-> ""]]
        /\ UNCHANGED <<registry, client, requests, returned, cache, socket,
                       integrations, monitor>>

\* i < allOptions.length && i < maxRetries: the body runs, or the loop and
\* with it the function ends, and the promise resolves with undefined
LoopTest ==
    /\ orchestrator.pc = "ready" /\ orchestrator.call.pc = "loop"
    /\ LET call == orchestrator.call
       IN  orchestrator' =
               IF call.i < Len(call.allOptions) /\ call.i < call.maxRetries
               THEN [orchestrator EXCEPT !.call.pc = "try"]
               ELSE [orchestrator EXCEPT !.call.pc = "done",
                                         !.call.outcome = "undefined"]
    /\ UNCHANGED <<registry, client, requests, returned, cache, socket,
                   integrations, monitor>>

\* the catch block: the last option throws 'All fallback options exhausted',
\* any other one waits 1000 * (i + 1) ms
Caught(call) ==
    LET failed == [call EXCEPT
                      !.attempts = Append(@, [option |-> call.allOptions[call.i + 1],
                                              outcome |-> "error"])]
    IN  IF call.i = Len(call.allOptions) - 1
        THEN [failed EXCEPT !.pc = "done", !.outcome = "error",
                            !.result = "All fallback options exhausted"]
        ELSE [failed EXCEPT !.pc = "waiting"]

\* i === 0: return await this.executeOnAgent(agentId, task), which resolves
\* after a second with a text made of agentId and task.description; reading
\* the description of an undefined task throws a TypeError
TryPrimary ==
    /\ orchestrator.pc = "ready" /\ orchestrator.call.pc = "try"
    /\ orchestrator.call.i = 0
    /\ LET call == orchestrator.call
       IN  orchestrator' =
               IF call.task = NoTask
               THEN [orchestrator EXCEPT !.call = Caught(call)]
               ELSE [orchestrator EXCEPT
                        !.call.pc = "done",
                        !.call.outcome = "result",
                        !.call.result = "Task completed by agent " \o call.agentId,
                        !.call.attempts = Append(@, [option |-> call.allOptions[1],
                                                     outcome |-> "result"])]
    /\ UNCHANGED <<registry, client, requests, returned, cache, socket,
                   integrations, monitor>>

\* what the calls of a fallback attempt give: a model is found and answers
\* the query, no model is found, or one of the calls throws
Outcomes == {"result", "none", "error"}

\* i > 0: discoverModel(task.type, { provider: currentOption }), and with a
\* model createModelClient(model.id) and client.query(task.description);
\* reading the type of an undefined task throws a TypeError.  Without a model
\* nothing is returned or thrown and the loop goes on.
TryFallback ==
    /\ orchestrator.pc = "ready" /\ orchestrator.call.pc = "try"
    /\ orchestrator.call.i > 0
    /\ LET call == orchestrator.call
       IN  \E outcome \in (IF call.task = NoTask THEN {"error"} ELSE Outcomes) :
              orchestrator' =
                  CASE outcome = "error" -> [orchestrator EXCEPT !.call = Caught(call)]
                    [] outcome = "none" ->
                         [orchestrator EXCEPT
                             !.call.pc = "loop", !.call.i = @ + 1,
                             !.call.attempts =
                                 Append(@, [option |-> call.allOptions[call.i + 1],
                                            outcome |-> "none"])]
                    [] outcome = "result" ->
                         [orchestrator EXCEPT
                             !.call.pc = "done", !.call.outcome = "result",
                             !.call.result = "answer of " \o call.allOptions[call.i + 1],
                             !.call.attempts =
                                 Append(@, [option |-> call.allOptions[call.i + 1],
                                            outcome |-> "result"])]
    /\ UNCHANGED <<registry, client, requests, returned, cache, socket,
                   integrations, monitor>>

\* the timer of the catch block fires: i++
Waited ==
    /\ orchestrator.pc = "ready" /\ orchestrator.call.pc = "waiting"
    /\ orchestrator' = [orchestrator EXCEPT !.call.pc = "loop", !.call.i = @ + 1]
    /\ UNCHANGED <<registry, client, requests, returned, cache, socket,
                   integrations, monitor>>

-----------------------------------------------------------------------------
(* ModelIntegrations (src/model-integrations.js): registerOpenAIModels,
   registerAnthropicModels, registerOllamaModels, registerHuggingFaceModels
   and registerLocalModel *)

\* the methods of class AIRegistryClient
ClientMethods ==
    {"findModels", "getModelCommunication", "discoverModel", "createModelClient",
     "registerAgent", "updateAgentStatus", "getAllModels", "getStats",
     "subscribeToUpdates", "handleRegistryUpdate", "makeRequest"}

\* new ModelIntegrations()
NewModelIntegrations ==
    /\ integrations = NoIntegrations
    /\ integrations' = [pc |-> "ready", function |-> "none", list |-> <<>>, i |-> 1,
                        failed |-> <<>>, threw |-> FALSE]
    /\ UNCHANGED <<registry, client, requests, returned, cache, socket,
                   orchestrator, monitor>>

\* register...Models(...) up to the loop over the models of its list;
\* registerLocalModel(config) has the one model it builds from config
RegisterModels(lists) ==
    \E function \in DOMAIN lists :
        /\ integrations.pc \in {"ready", "done"}
        /\ integrations' = [pc |-> "loop", function |-> function,
                            list |-> lists[function], i |-> 1,
                            failed |-> <<>>, threw |-> FALSE]
        /\ UNCHANGED <<registry, client, requests, returned, cache, socket,
                       orchestrator, monitor>>

\* one turn of the loop: await this.registryClient.registerModel(model) in its
\* try block.  Calling a method the client does not have throws a TypeError:
\* the catch block logs the failure, and that of registerLocalModel throws it
\* again.
CallRegisterModel ==
    /\ integrations.pc = "loop" /\ integrations.i <= Len(integrations.list)
    /\ LET model == integrations.list[integrations.i]
       IN  IF "registerModel" \in ClientMethods
           THEN /\ Len(requests) < MaxInFlight
                /\ requests' = Append(requests,
                                      Request("registerModel", "POST",
                                              "/api/models/register",
                                              GetStr(model, "id"), model))
                /\ integrations' = [integrations EXCEPT !.pc = "awaiting"]
           ELSE /\ integrations' =
                       IF integrations.function = "registerLocalModel"
                       THEN [integrations EXCEPT !.failed = Append(@, model.name),
                                                 !.threw = TRUE, !.pc = "done"]
                       ELSE [integrations EXCEPT !.failed = Append(@, model.name),
                                                 !.i = @ + 1]
                /\ UNCHANGED requests
    /\ UNCHANGED <<registry, client, returned, cache, socket, orchestrator, monitor>>

\* the loop is over: the function returns
RegisterModelsReturns ==
    /\ integrations.pc = "loop" /\ integrations.i > Len(integrations.list)
    /\ integrations' = [integrations EXCEPT !.pc = "done"]
    /\ UNCHANGED <<registry, client, requests, returned, cache, socket,
                   orchestrator, monitor>>

\* the state a new process is in once the constructor has returned
Init ==
    /\ models = <<>>
    /\ agents = <<>>
    /\ file = NoFile
    /\ writing = NoWrite
    /\ loadPc = "reading"
    /\ wsClients = <<>>
    /\ wsMessage = NoMessage
    /\ resp = NoResponse
    /\ now = 0
    /\ client = NoClient
    /\ requests = <<>>
    /\ returned = NoReturn
    /\ cache = <<>>
    /\ socket = NoSocket
    /\ orchestrator = NoOrchestrator
    /\ integrations = NoIntegrations
    /\ monitor = NoMonitor

-----------------------------------------------------------------------------
(* The requests the clients send *)

WithId(modelData, id) ==
    [f \in DOMAIN modelData \cup {"id"} |-> IF f = "id" THEN id ELSE modelData[f]]

Gpt4 ==
    [name |-> "gpt-4", type |-> "llm", provider |-> "openai",
     endpoint |-> "https://api.openai.com", apiKey |-> "sk-secret",
     capabilities |-> Arr({"text-generation"}), reliability |-> 99, latencyMs |-> 1500,
     tags |-> Arr({"premium"})]
Llama2 ==
    [name |-> "llama2", type |-> "llm", provider |-> "ollama",
     endpoint |-> "http://localhost:11434", reliability |-> 95, latencyMs |-> 3000,
     communicationSchema |->
         [requestFormat |-> "ollama", responseFormat |-> "ollama",
          streamingSupported |-> TRUE, authMethod |-> "none"],
     tags |-> Arr({"local"})]
Batch ==
    [name |-> "batch", type |-> "vision", provider |-> "custom",
     endpoint |-> "http://batch.internal", apiKey |-> "", latencyMs |-> 1000000,
     inputFormats |-> Arr({"image"})]
Bare == [type |-> "llm"]
Plugin == [name |-> "plugin", type |-> "constructor", provider |-> "local"]
Schema(requestFormat, responseFormat) ==
    [requestFormat |-> requestFormat, responseFormat |-> responseFormat,
     streamingSupported |-> FALSE, authMethod |-> "api-key"]
Claude ==
    [name |-> "claude-sonnet-4", type |-> "llm", provider |-> "anthropic",
     endpoint |-> "https://api.anthropic.com", apiKey |-> "sk-ant",
     communicationSchema |-> Schema("anthropic", "anthropic")]
AgentPayloads == {[id |-> "agent-7", name |-> "agent-7", status |-> "busy"]}

Clients == {"ws1"}

\* the registrations of a base payload: without an id, and with each explicit id
Registrations(base, ids) == base \cup {WithId(d, id) : d \in base, id \in ids}

-----------------------------------------------------------------------------
(* Spec: the registry serving register, update, heartbeat, delete and the
   reads, with listeners coming and going *)

LifecycleIds == {"a", "7"} \cup Uuids
LifecyclePayloads == Registrations({Gpt4, Bare}, {"a", "7"})
LifecycleBodies == {[id |-> "7"]}

Next ==
    \/ LoadData /\ Quiet
    \/ RegisterModel(LifecyclePayloads) /\ Quiet
    \/ ListModels /\ Quiet
    \/ FindModelsRoute({<<>>}) /\ Quiet
    \/ GetModel(LifecycleIds) /\ Quiet
    \/ GetModelCommunication(LifecycleIds) /\ Quiet
    \/ UpdateModel(LifecycleIds, LifecycleBodies) /\ Quiet
    \/ UpdateModelStatus(LifecycleIds, {"active", "inactive"}) /\ Quiet
    \/ DeleteModel(LifecycleIds) /\ Quiet
    \/ WsConnect(Clients) /\ Quiet
    \/ WsClose /\ Quiet

Spec == Init /\ [][Next]_vars

\* the state once loadData() has found no file and started fresh
Started ==
    /\ models = <<>>
    /\ agents = <<>>
    /\ file = NoFile
    /\ writing = NoWrite
    /\ loadPc = "done"
    /\ wsClients = <<>>
    /\ wsMessage = NoMessage
    /\ resp = Response("loadData", 0, NoId, <<>>, <<>>, <<>>)
    /\ now = 0
    /\ client = NoClient
    /\ requests = <<>>
    /\ returned = NoReturn
    /\ cache = <<>>
    /\ socket = NoSocket
    /\ orchestrator = NoOrchestrator
    /\ integrations = NoIntegrations
    /\ monitor = NoMonitor

-----------------------------------------------------------------------------
(* QuerySpec: models are registered, updated and removed, and clients search
   them and ask how to call them *)

QueryIds == {"a", "7"} \cup Uuids
QueryPayloads == Registrations({Gpt4, Llama2, Batch, Bare}, {"a", "7"})
QueryBodies == {[tags |-> JsNull]}
FindCriteria ==
    {<<>>,
     [type |-> "llm"],
     [provider |-> "anthropic"],
     [capability |-> "text-generation"],
     [inputFormat |-> "image"],
     [outputFormat |-> "text"],
     [maxLatency |-> 2000],
     [maxLatency |-> 0],
     [minReliability |-> 99],
     [tags |-> Arr({"local"})],
     [type |-> "llm", maxLatency |-> 2000, minReliability |-> 95]}

QueryNext ==
    \/ RegisterModel(QueryPayloads) /\ Quiet
    \/ UpdateModel(QueryIds, QueryBodies) /\ Quiet
    \/ DeleteModel(QueryIds) /\ Quiet
    \/ FindModelsRoute(FindCriteria) /\ Quiet
    \/ GetModelCommunication(QueryIds) /\ Quiet

QuerySpec == Started /\ [][QueryNext]_vars

-----------------------------------------------------------------------------
(* NotifySpec: models and agents are registered, updated and removed while
   listeners connect and leave, and clients read records and statistics *)

NotifyIds == {"7"} \cup Uuids
NotifyPayloads == {Bare, WithId(Gpt4, "7"), WithId(Plugin, "7")}
NotifyBodies == {[status |-> "inactive"]}
NotifyClients == {"ws1", "ws2"}

NotifyNext ==
    \/ RegisterModel(NotifyPayloads) /\ Quiet
    \/ RegisterAgent(AgentPayloads) /\ Quiet
    \/ GetModel(NotifyIds) /\ Quiet
    \/ GetModelCommunication(NotifyIds) /\ Quiet
    \/ UpdateModel(NotifyIds, NotifyBodies) /\ Quiet
    \/ DeleteModel(NotifyIds) /\ Quiet
    \/ GetStats /\ Quiet
    \/ WsConnect(NotifyClients) /\ Quiet
    \/ WsClosing /\ Quiet
    \/ WsClose /\ Quiet

NotifySpec == Started /\ [][NotifyNext]_vars

-----------------------------------------------------------------------------
(* DescribeSpec: as time passes models of every wire format are registered
   and clients ask how to call them *)

DescribeIds == {"7"} \cup Uuids
DescribeSchemas ==
    {Schema("openai-compatible", "openai-compatible"),
     Schema("anthropic", "ollama"),
     Schema("grpc", "grpc"),
     Schema("constructor", "constructor")}
DescribePayloads ==
    {Bare, WithId(Claude, "7"), WithId(Llama2, "7")}
        \cup {[id |-> "7", name |-> "custom", communicationSchema |-> schema] :
                  schema \in DescribeSchemas}

DescribeNext ==
    \/ RegisterModel(DescribePayloads) /\ Quiet
    \/ GetModelCommunication(DescribeIds) /\ Quiet
    \/ Tick /\ Quiet

DescribeSpec == Started /\ [][DescribeNext]_vars

-----------------------------------------------------------------------------
(* UpdateSpec: as time passes models and agents are registered and clients
   update some fields of the models *)

UpdateIds == {"7"} \cup Uuids
UpdatePayloads == {Bare, WithId(Gpt4, "7")}
UpdateBodies ==
    {[status |-> "inactive", latencyMs |-> 200],
     [apiKey |-> "sk-rotated", tags |-> Arr({"fast"})]}

UpdateNext ==
    \/ RegisterModel(UpdatePayloads) /\ Quiet
    \/ RegisterAgent(AgentPayloads) /\ Quiet
    \/ UpdateModel(UpdateIds, UpdateBodies) /\ Quiet
    \/ Tick /\ Quiet

UpdateSpec == Started /\ [][UpdateNext]_vars

-----------------------------------------------------------------------------
(* ClientSpec: a ModelClient made from a descriptor of the registry queries
   the model's endpoint, which answers, answers garbage, fails or stays silent *)

Custom ==
    [name |-> "custom", type |-> "llm", endpoint |-> "http://custom.internal",
     communicationSchema |-> Schema("grpc", "grpc")]
Descriptors ==
    {Communication(ModelEntry(modelData, "7", 0), 0) :
        modelData \in {Gpt4, Claude, Llama2, Custom}}
Prompts == {"Hello, how can you help me?"}
OptionsSet == {EmptyObject, [maxTokens |-> 50, temperature |-> 20]}
Replies ==
    {[choices |-> <<[message |-> [content |-> "chat"]]>>],
     [choices |-> <<[text |-> "completion"]>>],
     [content |-> <<[text |-> "message"]>>],
     [response |-> "generated"],
     [output |-> "out"],
     [text |-> "", response |-> "r", output |-> "o"],
     [error |-> "overloaded"]}

ClientNext ==
    \/ Query(Descriptors, Prompts, OptionsSet) /\ Quiet
    \/ EndpointAnswers(Replies) /\ Quiet
    \/ EndpointAnswersGarbage /\ Quiet
    \/ ConnectionFails /\ Quiet
    \/ OnEnd /\ Quiet
    \/ OnError /\ Quiet

ClientSpec == Started /\ [][ClientNext]_vars

\* the event loop runs the handler of an event that has been emitted; nothing
\* makes the endpoint answer
ClientFairSpec == ClientSpec /\ WF_vars(OnEnd /\ Quiet) /\ WF_vars(OnError /\ Quiet)

-----------------------------------------------------------------------------
(* RegistryMonitor and the health endpoint (src/unnamed/part_002) *)

\* a quotient of two numbers of the program, kept as the pair it was made of
Rate(n, d) == [n |-> n, d |-> d]

\* this.metrics as the constructor makes it
DefaultMetrics ==
    [requests |-> [total |-> 0, successful |-> 0, failed |-> 0,
                   byEndpoint |-> EmptyObject, responseTimeHistory |-> <<>>],
     agents   |-> [lastSeenHistory |-> EmptyObject],
     system   |-> [errorRate |-> Rate(0, 1), averageResponseTime |-> Rate(0, 1)]]

NoHealth == [status |-> "none", statusCode |-> 0, errorRate |-> Rate(0, 1)]

\* new RegistryMonitor(): the metrics are the defaults and init() is started,
\* not awaited; the metrics file is what an earlier process left
NewRegistryMonitor ==
    /\ monitor' = [pc |-> "loading", metrics |-> DefaultMetrics,
                   file |-> monitor.file, health |-> NoHealth]
    /\ UNCHANGED <<registry, client, requests, returned, cache, socket,
                   orchestrator, integrations>>

\* loadMetrics(): { ...this.metrics, ...savedMetrics } takes every top-level
\* key of the file; then startPeriodicTasks()
LoadMetrics ==
    /\ monitor.pc = "loading"
    /\ monitor' = [monitor EXCEPT
                      !.pc = "ready",
                      !.metrics = IF monitor.file = <<>> THEN @ ELSE monitor.file[1]]
    /\ UNCHANGED <<registry, client, requests, returned, cache, socket,
                   orchestrator, integrations>>

\* saveMetrics(), every 30 seconds
SaveMetrics ==
    /\ monitor.pc = "ready"
    /\ monitor' = [monitor EXCEPT !.file = <<monitor.metrics>>]
    /\ UNCHANGED <<registry, client, requests, returned, cache, socket,
                   orchestrator, integrations>>

\* the first of these indices, or 0
FirstIndex(indices) ==
    IF indices = {} THEN 0
    ELSE CHOOSE i \in indices : \A j \in indices : i <= j

\* String.replace with a pattern that is not global: the first match only
ReplaceFirst(path, matches) ==
    [i \in DOMAIN path |-> IF i = FirstIndex(matches) THEN ":id" ELSE path[i]]

\* the indices of the segments that follow the segment word
After(path, word) == {i \in DOMAIN path : i > 1 /\ path[i - 1] = word}

\* normalizeEndpoint(url): the path without the query, with the first UUID
\* (a segment of Uuids), the segment after the first 'models' and the one
\* after the first 'agents' replaced by ':id'
normalizeEndpoint(url) ==
    LET uuid  == ReplaceFirst(url.path, {i \in DOMAIN url.path : url.path[i] \in Uuids})
        model == ReplaceFirst(uuid, After(uuid, "models"))
    IN  ReplaceFirst(model, After(model, "agents"))

RECURSIVE SumSeq(_)
\* reduce((acc, entry) => acc + entry.responseTime, 0)
SumSeq(history) ==
    IF history = <<>> THEN 0
    ELSE Head(history).responseTime + SumSeq(Tail(history))

PushUnlimited(history, entry, limit) == Append(history, entry)
\* push(entry), then shift() if the length is over the limit
Push(history, entry, limit) ==
    IF Len(history) + 1 > limit
    THEN Tail(Append(history, entry))
    ELSE Append(history, entry)

\* updateAverageResponseTime()
updateAverageResponseTime(metrics) ==
    IF Len(metrics.requests.responseTimeHistory) = 0 THEN metrics
    ELSE [metrics EXCEPT !.system.averageResponseTime =
             Rate(SumSeq(metrics.requests.responseTimeHistory),
                  Len(metrics.requests.responseTimeHistory))]

\* updateErrorRate()
updateErrorRate(metrics) ==
    IF metrics.requests.total = 0 THEN metrics
    ELSE [metrics EXCEPT !.system.errorRate =
             Rate(metrics.requests.failed, metrics.requests.total)]

\* the counters of logRequest for a response of this status to this endpoint
Counted(requests_, endpoint, statusCode, responseTime) ==
    LET stats == IF Has(requests_.byEndpoint, endpoint)
                 THEN requests_.byEndpoint[endpoint]
                 ELSE [count |-> 0, totalResponseTime |-> 0, errors |-> 0]
        entry == [count |-> stats.count + 1,
                  totalResponseTime |-> stats.totalResponseTime + responseTime,
                  errors |-> IF statusCode >= 400 THEN stats.errors + 1 ELSE stats.errors]
    IN  [requests_ EXCEPT
            !.total = @ + 1,
            !.successful = IF statusCode >= 200 /\ statusCode < 400 THEN @ + 1 ELSE @,
            !.failed = IF statusCode >= 200 /\ statusCode < 400 THEN @ ELSE @ + 1,
            !.byEndpoint = [e \in DOMAIN @ \cup {endpoint} |->
                               IF e = endpoint THEN entry ELSE @[e]]]

\* logRequest(req, res, responseTime), as the monitoring middleware calls it
LogRequest(logged) ==
    \E request \in logged :
        /\ monitor.pc # "none"
        /\ monitor.metrics.requests.total < MaxRequests
        /\ LET counted == Counted(monitor.metrics.requests,
                                  normalizeEndpoint(request.url),
                                  request.statusCode, request.responseTime)
               pushed  == [counted EXCEPT !.responseTimeHistory =
                              Push(@, [timestamp |-> now,
                                       responseTime |-> request.responseTime],
                                   ResponseTimeHistoryLimit)]
           IN  monitor' = [monitor EXCEPT !.metrics =
                              updateAverageResponseTime([@ EXCEPT !.requests = pushed])]
        /\ UNCHANGED <<registry, client, requests, returned, cache, socket,
                       orchestrator, integrations>>

\* logError(error, context): the error rate is updated, and emit('error')
\* throws the entry when no listener for 'error' is registered
LogError ==
    /\ monitor.pc # "none"
    /\ monitor' = [monitor EXCEPT !.metrics = updateErrorRate(@)]
    /\ returned' = Return("logError", NoId, <<>>, TRUE)
    /\ UNCHANGED <<registry, client, requests, cache, socket, orchestrator, integrations>>

\* logAgentActivity(agentId, activity): a name that lastSeenHistory inherits
\* is there already and has no push
LogAgentActivity(ids) ==
    \E agentId \in ids :
        /\ monitor.pc # "none"
        /\ IF agentId \in ObjectPrototypeKeys
           THEN /\ returned' = Return("logAgentActivity", agentId, <<>>, TRUE)
                /\ UNCHANGED monitor
           ELSE /\ monitor' = [monitor EXCEPT !.metrics.agents.lastSeenHistory =
                                  [a \in DOMAIN @ \cup {agentId} |->
                                      IF a = agentId
                                      THEN Push(IF Has(@, a) THEN @[a] ELSE <<>>, now,
                                                LastSeenHistoryLimit)
                                      ELSE @[a]]]
                /\ UNCHANGED returned
        /\ UNCHANGED <<registry, client, requests, cache, socket, orchestrator, integrations>>

\* the status the health endpoint gives for an error rate of n / d
HealthStatus(rate) ==
    IF 2 * rate.n > rate.d THEN "unhealthy"
    ELSE IF 10 * rate.n > rate.d THEN "degraded"
    ELSE "healthy"

\* createHealthCheckEndpoint(monitor): performance.errorRate is
\* this.metrics.system.errorRate
Health ==
    /\ monitor.pc # "none"
    /\ LET rate == monitor.metrics.system.errorRate
       IN  monitor' = [monitor EXCEPT !.health =
               [status |-> HealthStatus(rate),
                statusCode |-> IF HealthStatus(rate) = "unhealthy" THEN 503 ELSE 200,
                errorRate |-> rate]]
    /\ UNCHANGED <<registry, client, requests, returned, cache, socket,
                   orchestrator, integrations>>

-----------------------------------------------------------------------------
(* AgentSpec: agents register through the client library, send their status
   as a heartbeat, and the agents are listed *)

AgentIds == {"agent-7", "agent-9"}
AgentInfos == AgentPayloads \cup {[id |-> "agent-9", name |-> "agent-9"]}
AgentStatuses == {[status |-> "idle"], [status |-> "busy"]}

AgentNext ==
    \/ ClientRegisterAgent(AgentInfos)
    \/ ServeRegisterAgent
    \/ RegisterAgentReturns
    \/ ClientUpdateAgentStatus(AgentIds, AgentStatuses)
    \/ NoRoute
    \/ UpdateAgentStatusReturns
    \/ ListAgents /\ Quiet

AgentSpec == Started /\ [][AgentNext]_vars

-----------------------------------------------------------------------------
(* OrchestratorSpec: an orchestrator registers agents with their fallback
   chains and executes tasks on them *)

Analysis == [type |-> "analysis", description |-> "Critical business analysis"]
OrchestratorTasks == {Analysis, NoTask}
OrchestratorAgents ==
    {[id |-> "primary-agent", name |-> "Main Processing Agent"],
     [id |-> "agent-9", name |-> "agent-9"]}
OrchestratorIds == {"primary-agent", "agent-9"}
FallbackChains == {<<>>, <<"openai">>, <<"openai", "anthropic", "ollama">>}
\* the values of maxRetries: none, one, and the default
Retries == {0, 1, 3}

OrchestratorNext ==
    \/ NewAgentOrchestrator
    \/ RegisterAgentWithFallbacks(OrchestratorAgents, FallbackChains)
    \/ ServeRegisterAgent
    \/ RegisterAgentWithFallbacksReturns
    \/ ExecuteWithFallback(OrchestratorIds, OrchestratorTasks, Retries)
    \/ LoopTest
    \/ TryPrimary
    \/ TryFallback
    \/ Waited

OrchestratorSpec == Started /\ [][OrchestratorNext]_vars

-----------------------------------------------------------------------------
(* IntegrationSpec: the integrations register the models of their lists with
   a registry that is up, while the dashboard registers models and lists them *)

Named(name, type, provider, schema) ==
    [name |-> name, type |-> type, provider |-> provider,
     communicationSchema |-> schema]

\* the lists of the functions; that of registerOllamaModels holds the models
\* the Ollama endpoint reports
IntegrationLists ==
    [registerOpenAIModels |->
        <<Gpt4,
          Named("gpt-3.5-turbo", "llm", "openai",
                Schema("openai-compatible", "openai-compatible")),
          Named("dall-e-3", "vision", "openai", Schema("openai-images", "openai-images"))>>,
     registerAnthropicModels |->
        <<Claude, Named("claude-opus-4", "llm", "anthropic",
                        Schema("anthropic", "anthropic"))>>,
     registerOllamaModels |-> <<Llama2>>,
     registerHuggingFaceModels |->
        <<Named("facebook/bart-large-cnn", "nlp", "huggingface",
                Schema("huggingface", "huggingface")),
          Named("sentence-transformers/all-MiniLM-L6-v2", "embedding", "huggingface",
                Schema("huggingface", "huggingface")),
          Named("cardiffnlp/twitter-roberta-base-sentiment-latest", "nlp",
                "huggingface", Schema("huggingface", "huggingface"))>>,
     registerLocalModel |->
        <<Named("my-model", "llm", "local", Schema("custom", "custom"))>>]

DashboardPayloads == {Bare, WithId(Gpt4, "7")}

IntegrationNext ==
    \/ NewModelIntegrations
    \/ RegisterModels(IntegrationLists)
    \/ CallRegisterModel
    \/ RegisterModelsReturns
    \/ RegisterModel(DashboardPayloads) /\ Quiet
    \/ ListModels /\ Quiet

IntegrationSpec == Started /\ [][IntegrationNext]_vars

-----------------------------------------------------------------------------
(* DefaultsSpec: models are registered with and without the performance
   hints, at the ends of their ranges and inside them *)

\* modelData with the value of <<value>> under key, or as it is for <<>>
With(modelData, key, value) ==
    IF value = <<>> THEN modelData
    ELSE [f \in DOMAIN modelData \cup {key} |->
             IF f = key THEN value[1] ELSE modelData[f]]

\* reliability in hundredths and latencyMs, <<>> for an omitted one
Reliabilities == {<<>>, <<0>>, <<50>>, <<100>>}
Latencies == {<<>>, <<0>>, <<1500>>}
DefaultsPayloads ==
    {With(With(modelData, "reliability", reliability), "latencyMs", latencyMs) :
        modelData \in {Bare, [id |-> "7", type |-> "llm"]},
        reliability \in Reliabilities, latencyMs \in Latencies}

DefaultsNext ==
    \/ PostRegisterModel(DefaultsPayloads)
    \/ ServeRegisterModel
    \/ PostAnswered
    \/ GetModel({"7"}) /\ Quiet

DefaultsSpec == Started /\ [][DefaultsNext]_vars

-----------------------------------------------------------------------------
(* CacheSpec: as time passes a client searches and describes models through
   its cache, while requests fail and models are registered *)

CacheIds == {"7"}
CachePayloads == {WithId(Gpt4, "7")}
CacheCriteria == {<<>>}

CacheNext ==
    \/ NewAIRegistryClient
    \/ ClientFindModels(CacheCriteria)
    \/ ClientGetModelCommunication(CacheIds)
    \/ ServeFind
    \/ ServeCommunication
    \/ RequestFails
    \/ FindModelsReturns
    \/ GetModelCommunicationReturns
    \/ RegisterModel(CachePayloads) /\ Quiet
    \/ Tick /\ Quiet

CacheSpec == Started /\ [][CacheNext]_vars

-----------------------------------------------------------------------------
(* InvalidateSpec: a subscribed client searches and describes models through
   its cache while the models change at the registry, which tells the client *)

InvalidateBodies == {[status |-> "inactive"]}
InvalidateCriteria == {<<>>}

InvalidateNext ==
    \/ NewAIRegistryClient
    \/ SocketOpens
    \/ ClientFindModels(InvalidateCriteria)
    \/ ClientGetModelCommunication(CacheIds)
    \/ ServeFind
    \/ ServeCommunication
    \/ FindModelsReturns
    \/ GetModelCommunicationReturns
    \/ RegisterModel(CachePayloads) /\ Pushed
    \/ UpdateModel(CacheIds, InvalidateBodies) /\ Pushed
    \/ DeleteModel(CacheIds) /\ Pushed
    \/ OnMessage

InvalidateSpec == Started /\ [][InvalidateNext]_vars

-----------------------------------------------------------------------------
(* HealthSpec: a monitor logs requests and errors while the health endpoint
   is asked *)

MonitorRequests ==
    {[url |-> [path |-> <<"api", "models", "7">>, query |-> ""],
      statusCode |-> 200, responseTime |-> 10],
     [url |-> [path |-> <<"api", "models", "find">>, query |-> "?verbose=1"],
      statusCode |-> 500, responseTime |-> 20],
     [url |-> [path |-> <<"health">>, query |-> ""],
      statusCode |-> 404, responseTime |-> 30]}

HealthNext ==
    \/ NewRegistryMonitor
    \/ LoadMetrics
    \/ SaveMetrics
    \/ LogRequest(MonitorRequests)
    \/ LogError
    \/ Health

HealthSpec == Started /\ [][HealthNext]_vars

-----------------------------------------------------------------------------
(* HistorySpec: a monitor logs requests and the activity of agents as time
   passes *)

MonitorAgents == {"agent-7", "constructor"}

HistoryNext ==
    \/ NewRegistryMonitor
    \/ LoadMetrics
    \/ LogRequest(MonitorRequests)
    \/ LogAgentActivity(MonitorAgents)
    \/ Tick /\ Quiet

HistorySpec == Started /\ [][HistoryNext]_vars

-----------------------------------------------------------------------------
(* SubscribeSpec: a client subscribes to the updates of the registry; its
   connection opens, carries the events of changed models as time passes, and
   ends, and the
   registry can or cannot be reached when the client connects again.  A
   timer that is due fires, and a registry that connecting sockets find
   again and again is reached by one of them *)

SubscribeNext ==
    \/ NewAIRegistryClient
    \/ SocketOpens
    \/ SocketCloses
    \/ SocketRefused
    \/ TimerFires
    \/ RegisterModel(CachePayloads) /\ Pushed
    \/ UpdateModel(CacheIds, InvalidateBodies) /\ Pushed
    \/ DeleteModel(CacheIds) /\ Pushed
    \/ OnMessage
    \/ Tick /\ Quiet

SubscribeSpec ==
    /\ Started
    /\ [][SubscribeNext]_vars
    /\ WF_vars(TimerFires)
    /\ SF_vars(SocketOpens)

-----------------------------------------------------------------------------
(* PersistSpec: as time passes models and agents are registered, the store is
   saved by the timer, and a new process loads it *)

Keyless == [type |-> "llm", apiKey |-> ""]
PersistIds == {"a", "7", "3"}
PersistPayloads == {WithId(Keyless, id) : id \in PersistIds}

PersistNext ==
    \/ LoadData /\ Quiet
    \/ RegisterModel(PersistPayloads) /\ Quiet
    \/ DeleteModel(PersistIds) /\ Quiet
    \/ RegisterAgent(AgentPayloads) /\ Quiet
    \/ SaveData /\ Quiet
    \/ WriteFileDone /\ Quiet
    \/ WriteFileFails /\ Quiet
    \/ Restart /\ Quiet

PersistSpec == Init /\ [][PersistNext]_vars

-----------------------------------------------------------------------------
(* The claims *)

Elements(seq) == {seq[i] : i \in DOMAIN seq}
Stored == Elements(MapValues(models))
FindAnswered == resp.op = "findModels" /\ resp.code = 200

\* what each criterion asks of a record
Satisfies(r, c) ==
    /\ Has(c, "type") => r.type = c["type"]
    /\ Has(c, "provider") => r.provider = c["provider"]
    /\ Has(c, "capability") => c["capability"] \in r.capabilities.items
    /\ Has(c, "inputFormat") => c["inputFormat"] \in r.inputFormats.items
    /\ Has(c, "outputFormat") => c["outputFormat"] \in r.outputFormats.items
    /\ Has(c, "maxLatency") => (r.latencyMs = Null \/ r.latencyMs <= c["maxLatency"])
    /\ Has(c, "minReliability") => r.reliability >= c["minReliability"]
    /\ Has(c, "tags") => c["tags"].items \subseteq r.tags.items

\* C1: the records findModels(criteria) returns are exactly the stored records
\* that satisfy every criterion the request supplies.
C1_FindReturnsExactlyTheMatches ==
    FindAnswered =>
        Elements(resp.models) = {r \in Stored : Satisfies(r, resp.criteria)}

LatencySet(r) == r.latencyMs # Null
\* a may stand before b: an unset latency comes after every set one
LatencyInOrder(a, b) ==
    IF LatencySet(a) THEN (~LatencySet(b) \/ a.latencyMs <= b.latencyMs)
    ELSE ~LatencySet(b)

\* C2: in the sequence findModels returns, a record that precedes another has
\* the higher reliability, or the same reliability and a latency that is not
\* larger, an unset latency counting as larger than every set latency.
C2_ResultsAreRanked ==
    FindAnswered =>
        \A i, j \in DOMAIN resp.models :
            i < j =>
                LET a == resp.models[i]
                    b == resp.models[j]
                IN  \/ a.reliability > b.reliability
                    \/ a.reliability = b.reliability /\ LatencyInOrder(a, b)

\* C3: no two stored model records carry the same id, and every record is
\* stored under the key that equals its own id field.
C3_IdsAreUniqueAndKeyed ==
    /\ \A i, j \in DOMAIN models : i # j => models[i].v.id # models[j].v.id
    /\ \A i \in DOMAIN models : models[i].v.id = models[i].k

\* C4: a registration that names an id already in the store overwrites: the
\* store keeps its size and its keys, holds one record under that id, that
\* record is the entry built from this registration alone, and the other
\* records are untouched.
C4_ReRegisterOverwrites ==
    [][(resp'.op = "registerModel" /\ MapHas(models, resp'.id)) =>
          /\ Len(models') = Len(models)
          /\ \A i \in DOMAIN models : models'[i].k = models[i].k
          /\ Cardinality({i \in DOMAIN models' : models'[i].k = resp'.id}) = 1
          /\ \E d \in LifecyclePayloads :
                MapGet(models', resp'.id) = ModelEntry(d, resp'.id, now')
          /\ MapGet(models', resp'.id) = resp'.models[1]
          /\ \A i \in DOMAIN models :
                models[i].k # resp'.id => models'[i] = models[i]]_vars

\* a registration of id "7" that found "7" already stored: a new key would
\* have been appended behind the other record
C4_Witness ==
    /\ resp.op = "registerModel" /\ resp.id = "7"
    /\ Len(models) = 2
    /\ models[1].k = "7"
    /\ models[1].v.apiKey = Undefined
    /\ models[2].v.name = "gpt-4"

\* the id is gone from store m: no key, no listed record and no found record
\* carries it
Absent(m, id) ==
    /\ ~MapHas(m, id)
    /\ \A r \in Elements(MapValues(m)) : r.id # id
    /\ \A r \in Elements(FindModels(m, <<>>)) : r.id # id

\* C5: once a delete of an id has succeeded, the id is not a key of the store
\* and is carried by no record of the list of all models or of findModels({});
\* it is still so after the next operation, and get(id) keeps finding nothing,
\* unless that id is registered again.
C5_DeletedStaysAbsent ==
    [][/\ (resp'.op = "deleteModel" /\ resp'.code = 200) => Absent(models', resp'.id)
       /\ (/\ resp.op = "deleteModel" /\ resp.code = 200
           /\ ~(resp'.op = "registerModel" /\ resp'.id = resp.id))
              => Absent(models', resp.id)
       /\ \A id \in LifecycleIds :
            (~MapHas(models, id) /\ ~(resp'.op = "registerModel" /\ resp'.id = id))
                => ~MapHas(models', id)]_vars

SameRecords(m1, m2) ==
    {<<m1[i].k, m1[i].v>> : i \in DOMAIN m1} = {<<m2[i].k, m2[i].v>> : i \in DOMAIN m2}

\* C6: the document saveData writes for the store, loaded by loadData into a
\* new registry, gives the same model and agent records under the same ids;
\* and the document a saveData has just handed to fs.writeFile does so.
C6_SaveLoadRoundTrip ==
    /\ LET doc == Stringify(models, agents, now)
       IN  /\ SameRecords(LoadedModels(doc), models)
           /\ SameRecords(LoadedAgents(doc), agents)
    /\ resp.op = "saveData" =>
           /\ SameRecords(LoadedModels(writing), models)
           /\ SameRecords(LoadedAgents(writing), agents)

\* a new process has loaded a saved file that holds two models and an agent
C6_Witness ==
    /\ resp.op = "loadData"
    /\ Readable(file)
    /\ Len(file.models) = 2
    /\ Len(file.agents) = 1
    /\ models = LoadedModels(file)
    /\ \E i \in DOMAIN models : models[i].v.name = Undefined /\ models[i].v.apiKey = ""

KeyValues == {"sk-secret", "sk-other"}
DescriptorStrings(d) ==
    {d.id, d.name, d.endpoint, d.protocol, d.authMethod, d.apiKey,
     d.exampleRequest.endpoint, d.exampleRequest.body.model, d.exampleResponse.model}
    \cup d.exampleRequest.headers

\* C7: the communication object answered for a stored model says that a key
\* is present exactly when the record's apiKey is non-empty, holds the raw key
\* nowhere, and is the same whatever the value of a non-empty key.
C7_DescriptorMasksKey ==
    (resp.op = "getModelCommunication" /\ resp.code = 200) =>
        LET d == resp.communication[1]
            m == MapGet(models, resp.id)
        IN  /\ d.apiKey \in {Hidden, NullStr}
            /\ d.apiKey = Hidden <=> m.apiKey \notin {Undefined, ""}
            /\ m.apiKey \notin {Undefined, ""} =>
                  /\ m.apiKey \notin DescriptorStrings(d)
                  /\ \A key \in KeyValues :
                        Communication([m EXCEPT !.apiKey = key], now) = d

C7_Witness ==
    /\ resp.op = "getModelCommunication" /\ resp.code = 200
    /\ MapGet(models, resp.id).apiKey = "sk-secret"
    /\ resp.communication[1].apiKey = Hidden

\* C8: no model record carried by a response, and no record pushed to a
\* listener, holds a raw apiKey.
C8_NoRawKeyLeaves ==
    /\ \A i \in DOMAIN resp.models : resp.models[i].apiKey \in {Undefined, "", Hidden}
    /\ (wsMessage.to # {} /\ "apiKey" \in DOMAIN wsMessage.data) =>
           wsMessage.data.apiKey \in {Undefined, "", Hidden}

\* the criteria without their maxLatency
WithoutMaxLatency(c) == [f \in DOMAIN c \ {"maxLatency"} |-> c[f]]

\* C9: with a maxLatency bound among the criteria, findModels leaves out
\* exactly the records whose set latency exceeds the bound: what it returns is
\* what it returns without the bound, less those.
C9_MaxLatencyExcludesOnlyLarger ==
    (FindAnswered /\ Has(resp.criteria, "maxLatency")) =>
        Elements(resp.models) =
            {r \in Elements(FindModels(models, WithoutMaxLatency(resp.criteria))) :
                ~(LatencySet(r) /\ r.latencyMs > resp.criteria["maxLatency"])}

\* C10: findModels raises no error: every find request is answered with the
\* sequence of matches.
C10_FindNeverThrows ==
    resp.op = "findModels" => resp.code = 200

\* a step that is the start of a new process
Restarted == resp' = NoResponse /\ resp # NoResponse
WriteFailed == resp.op = "writeFile" /\ resp.code = 500

\* C19: a query that has been sent settles: the promise of query(prompt)
\* resolves or rejects.
C19_QuerySettles ==
    (client.pc = "pending") ~> (client.pc \in {"resolved", "rejected"})

\* field f of the reply is present: carried, and not empty
Present(reply, f) == Has(reply, f) /\ reply[f] # ""
\* the text the reply of each known format holds, "No response" without one
Extracted(format, reply) ==
    LET choice == IF Has(reply, "choices") /\ Len(reply["choices"]) > 0
                  THEN reply["choices"][1] ELSE EmptyObject
        block == IF Has(reply, "content") /\ Len(reply["content"]) > 0
                 THEN reply["content"][1] ELSE EmptyObject
    IN  CASE format = "openai-compatible" ->
               IF Has(choice, "message") /\ Present(choice["message"], "content")
               THEN choice["message"]["content"]
               ELSE IF Present(choice, "text") THEN choice["text"] ELSE "No response"
          [] format = "anthropic" ->
               IF Present(block, "text") THEN block["text"] ELSE "No response"
          [] format = "ollama" ->
               IF Present(reply, "response") THEN reply["response"] ELSE "No response"

KnownFormats == {"openai-compatible", "anthropic", "ollama"}

LookupOps == {"getModel", "getModelCommunication", "updateModel", "deleteModel"}

\* C11: get, describe, update and delete of an id that is not in the store
\* answer 404 with no record, change neither the models nor the agents, and
\* send nothing to the listeners.
C11_UnknownIdIsNotFound ==
    [][(resp'.op \in LookupOps /\ ~MapHas(models, resp'.id)) =>
          /\ resp'.code = 404
          /\ resp'.models = <<>> /\ resp'.communication = <<>>
          /\ models' = models /\ agents' = agents
          /\ wsMessage' = NoMessage]_vars

\* a delete of an unknown id was answered while the store held a model and an
\* agent and a listener was connected
C11_Witness ==
    /\ resp.op = "deleteModel" /\ resp.code = 404
    /\ Len(models) = 1 /\ Len(agents) = 1
    /\ OpenClients # {}

\* the template a fixed lookup over the three formats selects, the
\* openai-compatible one standing for every other format
Selected(examples, format) ==
    CASE format = "anthropic" -> examples.anthropic
      [] format = "ollama" -> examples.ollama
      [] OTHER -> examples.openai

\* C12: the exampleRequest of a descriptor is the template its record's
\* requestFormat selects and the exampleResponse the one its responseFormat
\* selects, the openai-compatible template for every format but anthropic and
\* ollama; and the descriptor of the same record has the same two templates
\* at any other time.
C12_TemplatesFollowTheFormats ==
    (resp.op = "getModelCommunication" /\ resp.code = 200) =>
        LET d == resp.communication[1]
            m == MapGet(models, resp.id)
        IN  /\ d.exampleRequest
                   = Selected(RequestExamples(m), m.communicationSchema.requestFormat)
            /\ d.exampleResponse
                   = Selected(ResponseExamples(m, now), m.communicationSchema.responseFormat)
            /\ \A clock \in 0..MaxClock :
                   /\ Communication(m, clock).exampleRequest = d.exampleRequest
                   /\ Communication(m, clock).exampleResponse = d.exampleResponse

\* the listeners whose connection is open
Connected == {c \in DOMAIN wsClients : wsClients[c] = "OPEN"}

\* C13: every registration of a model or an agent, every successful update
\* and every successful delete sends all connected listeners the event of its
\* kind with the record it registered, updated or removed.
C13_ChangesAreNotified ==
    [][/\ resp'.op = "registerModel" =>
              /\ wsMessage'.to = Connected
              /\ Connected # {} =>
                    /\ wsMessage'.event = "model_registered"
                    /\ wsMessage'.data = MapGet(models', resp'.id)
       /\ resp'.op = "registerAgent" =>
              /\ wsMessage'.to = Connected
              /\ Connected # {} =>
                    /\ wsMessage'.event = "agent_registered"
                    /\ wsMessage'.data = MapGet(agents', resp'.id)
       /\ (resp'.op = "updateModel" /\ resp'.code = 200) =>
              /\ wsMessage'.to = Connected
              /\ Connected # {} =>
                    /\ wsMessage'.event = "model_updated"
                    /\ wsMessage'.data = MapGet(models', resp'.id)
       /\ (resp'.op = "deleteModel" /\ resp'.code = 200) =>
              /\ wsMessage'.to = Connected
              /\ Connected # {} =>
                    /\ wsMessage'.event = "model_removed"
                    /\ wsMessage'.data = MapGet(models, resp'.id)]_vars

RECURSIVE SumOf(_, _)
SumOf(obj, keys) ==
    IF keys = {} THEN 0
    ELSE LET key == CHOOSE k \in keys : TRUE
         IN  obj[key] + SumOf(obj, keys \ {key})

\* the counts of obj are numbers and add up to total
CountsSumTo(obj, total) ==
    /\ \A key \in DOMAIN obj : obj[key] \in Nat
    /\ SumOf(obj, DOMAIN obj) = total

StatsAreRight(ms, as) ==
    LET stats == getStats(ms, as, 0)
    IN  /\ stats.totalModels = Len(ms)
        /\ stats.activeModels =
               Cardinality({i \in DOMAIN ms : ms[i].v.status = "active"})
        /\ stats.totalAgents = Len(as)
        /\ CountsSumTo(stats.modelsByType, stats.totalModels)
        /\ CountsSumTo(stats.modelsByProvider, stats.totalModels)

\* C14: in every state the statistics count the stored models, the active
\* ones and the agents, and the counts by type and by provider each add up to
\* the number of models; a successful delete lowers totalModels by one and a
\* failed delete leaves it.
C14_StatsCountTheStore ==
    [][/\ StatsAreRight(models, agents)
       /\ StatsAreRight(models', agents')
       /\ resp'.op = "getStats" => resp'.stats = <<getStats(models, agents, now)>>
       /\ (resp'.op = "deleteModel" /\ resp'.code = 200) =>
              getStats(models', agents', now').totalModels
                  = getStats(models, agents, now).totalModels - 1
       /\ (resp'.op = "deleteModel" /\ resp'.code = 404) =>
              getStats(models', agents', now').totalModels
                  = getStats(models, agents, now).totalModels]_vars

\* C15: a successful update stores, and answers with, the record whose
\* supplied fields have the supplied values, whose lastUpdated is the time of
\* the call and whose other fields are as before; the other models, the keys
\* of the store and the agents are untouched.
C15_UpdateReplacesSuppliedFields ==
    [][(resp'.op = "updateModel" /\ resp'.code = 200) =>
          LET old == MapGet(models, resp'.id)
              new == MapGet(models', resp'.id)
          IN  /\ \E body \in UpdateBodies :
                    \A f \in ModelFields :
                        new[f] = IF f = "lastUpdated" THEN now
                                 ELSE IF f \in DOMAIN body THEN body[f]
                                 ELSE old[f]
              /\ resp'.models = <<new>>
              /\ Len(models') = Len(models)
              /\ \A i \in DOMAIN models :
                    /\ models'[i].k = models[i].k
                    /\ models[i].k # resp'.id => models'[i] = models[i]
              /\ agents' = agents]_vars

\* an update at time 1 of a record registered at time 0, another model and
\* an agent standing by
C15_Witness ==
    /\ resp.op = "updateModel" /\ resp.code = 200
    /\ resp.models[1].registeredAt = 0
    /\ resp.models[1].lastUpdated = 1
    /\ resp.models[1].status = "inactive"
    /\ resp.models[1].apiKey = "sk-secret"
    /\ Len(models) = 2 /\ Len(agents) = 1

\* C16: a loadData that finds no file, or one that does not parse, leaves the
\* store as the constructor made it (empty, when nothing was registered yet);
\* a saveData whose write fails leaves the maps, the listeners and the process
\* as they were, and the next registration is served as usual.
C16_PersistenceFailureIsNotFatal ==
    [][/\ (resp'.op = "loadData" /\ ~Readable(file)) =>
              /\ models' = models /\ agents' = agents
              /\ loadPc' = "done"
              /\ resp = NoResponse => (models' = <<>> /\ agents' = <<>>)
       /\ WriteFailed' =>
              /\ models' = models /\ agents' = agents
              /\ wsClients' = wsClients /\ loadPc' = loadPc
       /\ (WriteFailed /\ resp'.op = "registerModel") =>
              /\ resp'.code = 200
              /\ MapHas(models', resp'.id)
              /\ \A i \in DOMAIN models :
                    models[i].k # resp'.id => models'[i] = models[i]]_vars

\* a write has failed and left a truncated file; the store holds its records
C16_Witness ==
    /\ WriteFailed
    /\ file = Unparsable
    /\ writing = NoWrite
    /\ loadPc = "done"
    /\ Len(models) = 2
    /\ Len(agents) = 1

\* the store a new process has once its loadData has run on file f
StoreOf(f) ==
    IF Readable(f) THEN <<LoadedModels(f), LoadedAgents(f)>> ELSE <<<<>>, <<>>>>

\* C17: whenever the process crashes, what the new process will load is the
\* contents of the snapshot that was on disk or of the one that was being
\* written, and its loadData makes the store those contents.
C17_LastSnapshotWins ==
    [][/\ (Restarted /\ Readable(file)) =>
              StoreOf(file') \in {StoreOf(file), StoreOf(writing)}
       /\ (resp'.op = "loadData" /\ Readable(file)) =>
              /\ SameRecords(models', LoadedModels(file))
              /\ SameRecords(agents', LoadedAgents(file))]_vars

Answers(i) ==
    /\ Len(requests') = Len(requests)
    /\ i \in DOMAIN requests /\ requests[i].state = "sent"
    /\ requests'[i].state = "answered"

\* C21: when the registry answers the PUT of updateAgentStatus(agentId,
\* status) for a registered agent, the agent's record holds the status sent,
\* so that the list of agents shows it; and the call returns true.
C21_UpdateAgentStatusUpdates ==
    [][/\ \A i \in DOMAIN requests :
            (/\ Answers(i) /\ requests[i].op = "updateAgentStatus"
             /\ MapHas(agents, requests[i].id)) =>
                /\ MapGet(agents', requests[i].id).status = requests[i].body.status
                /\ \E agent \in Elements(MapValues(agents')) :
                      agent.id = requests[i].id /\ agent.status = requests[i].body.status
       /\ (/\ returned'.op = "updateAgentStatus" /\ requests' # requests
           /\ MapHas(agents, returned'.id)) =>
              returned'.value = <<TRUE>>]_vars

\* the options of a call that were tried, in the order they were tried
Tried(call) == [n \in DOMAIN call.attempts |-> call.attempts[n].option]

\* C22: a call of executeWithFallback that has completed tried the primary
\* agent and then the fallbacks in their order, and either returned the result
\* of the first option that succeeded, or threw 'All fallback options
\* exhausted' after every option was tried and none gave a result; it never
\* completed with neither.
C22_FallbackReturnsOrThrows ==
    (orchestrator.pc = "ready" /\ orchestrator.call.pc = "done") =>
        LET call == orchestrator.call
            n == Len(call.attempts)
        IN  /\ Tried(call) = SubSeq(call.allOptions, 1, n)
            /\ call.outcome \in {"result", "error"}
            /\ call.outcome = "result" =>
                  /\ n >= 1 /\ call.attempts[n].outcome = "result"
                  /\ \A m \in 1..(n - 1) : call.attempts[m].outcome # "result"
            /\ call.outcome = "error" =>
                  /\ call.result = "All fallback options exhausted"
                  /\ n = Len(call.allOptions)
                  /\ \A m \in 1..n : call.attempts[m].outcome # "result"

\* C23: once a register... function of the integrations has completed without
\* throwing, every model of its list is in the store of the registry, so that
\* the list of all models holds it.
C23_IntegrationsRegisterTheirModels ==
    (integrations.pc = "done" /\ ~integrations.threw) =>
        \A n \in DOMAIN integrations.list :
            \E model \in Elements(MapValues(models)) :
                model.name = integrations.list[n].name

\* C24: while the process runs, a model that is in the store stays
\* retrievable by get(id) until a delete of its id succeeds, whenever the
\* loadData() of the constructor completes.
C24_RegisteredStaysRetrievable ==
    [][\A id \in PersistIds :
          (/\ MapHas(models, id)
           /\ ~Restarted
           /\ ~(resp'.op = "deleteModel" /\ resp'.code = 200 /\ resp'.id = id))
              => MapHas(models', id)]_vars

\* C25: the record stored for a registration carries the reliability and the
\* latencyMs its body supplies, whatever their values, and the defaults
\* (reliability 1.0, latencyMs unset) for the ones the body omits.
C25_DefaultsOnlyWhenOmitted ==
    [][\A i \in DOMAIN requests :
          (Answers(i) /\ requests[i].route = "/api/models/register") =>
              LET body == requests[i].body
                  stored == MapGet(models', resp'.id)
              IN  /\ stored.reliability =
                         IF Has(body, "reliability") THEN body["reliability"] ELSE 100
                  /\ stored.latencyMs =
                         IF Has(body, "latencyMs") THEN body["latencyMs"] ELSE Null]_vars


-----------------------------------------------------------------------------
(* The cache of the client *)

\* the cache key of a request of findModels or getModelCommunication
RequestKey(request) ==
    IF request.op = "findModels"
    THEN FindKey(request.body)
    ELSE CommunicationKey(request.id)

\* the data findModels or getModelCommunication takes from a response
RequestData(request) ==
    IF request.op = "findModels"
    THEN request.reply.models
    ELSE request.reply.communication

\* C26: findModels and getModelCommunication answer from the cache, without
\* a request to the registry, only while the entry of the key is younger than
\* cacheTimeout; no request is sent for a key whose entry is that young; a
\* response that resolves replaces the entry of its key by the data and the
\* present time; and a request that fails leaves the cache as it was.
C26_CacheAnswersWhileYoung ==
    [][/\ (returned' # returned /\ returned'.source = "cache") =>
            /\ requests' = requests
            /\ cache' = cache
            /\ \E n \in DOMAIN cache :
                   /\ cache[n].k.prefix =
                          (IF returned'.op = "findModels" THEN "{" ELSE "communication:")
                   /\ cache[n].k.id =
                          (IF returned'.op = "findModels" THEN "" ELSE returned'.id)
                   /\ now - cache[n].v.timestamp < CacheTimeout
                   /\ returned'.value = cache[n].v.data
       /\ Len(requests') > Len(requests) =>
            \A n \in DOMAIN cache :
                cache[n].k = RequestKey(requests'[Len(requests')]) =>
                    now - cache[n].v.timestamp >= CacheTimeout
       /\ \A i \in DOMAIN requests :
            (/\ requests' = Without(requests, i)
             /\ requests[i].op \in {"findModels", "getModelCommunication"}) =>
                IF requests[i].state = "answered" /\ requests[i].json
                   /\ requests[i].statusCode \in 200..299
                THEN /\ MapHas(cache', RequestKey(requests[i]))
                     /\ MapGet(cache', RequestKey(requests[i])).data =
                            RequestData(requests[i])
                     /\ MapGet(cache', RequestKey(requests[i])).timestamp = now
                ELSE cache' = cache
      ]_vars

\* an answer from the cache, from an entry that replaced an expired one
C26_Witness ==
    /\ returned.source = "cache"
    /\ \E n \in DOMAIN cache :
           /\ cache[n].v.timestamp > 0
           /\ cache[n].v.data = returned.value
           /\ now - cache[n].v.timestamp < CacheTimeout

\* C27: once the client has handled a model_registered, model_updated or
\* model_removed event, no findModels or getModelCommunication returns data
\* the registry made before that event: every model event sent after the data
\* was made is still waiting to be handled when the data is returned.
C27_NoDataFromBeforeTheEvent ==
    [][(/\ returned' # returned
        /\ returned'.op \in {"findModels", "getModelCommunication"}
        /\ ~returned'.error) =>
            returned'.since <= Len(ModelMessages(socket.inbox))
      ]_vars

-----------------------------------------------------------------------------
(* The monitor *)

\* the status and the HTTP status the health endpoint is to give when failed
\* of total logged requests have failed
HealthOf(failed, total) ==
    IF 2 * failed > total THEN [status |-> "unhealthy", statusCode |-> 503]
    ELSE IF 10 * failed > total THEN [status |-> "degraded", statusCode |-> 200]
    ELSE [status |-> "healthy", statusCode |-> 200]

\* C28: after every logRequest and logError the error rate of the monitor is
\* requests.failed / requests.total, and the health endpoint answers
\* 'unhealthy' with 503 when more than half of the logged requests have
\* failed, 'degraded' when more than a tenth have, and 'healthy' otherwise.
C28_HealthFollowsTheFailures ==
    [][monitor'.pc # "none" =>
          /\ monitor'.metrics.requests.total > 0 =>
                 monitor'.metrics.system.errorRate.n * monitor'.metrics.requests.total
                     = monitor'.metrics.requests.failed * monitor'.metrics.system.errorRate.d
          /\ (monitor.pc # "none" /\ monitor'.health # monitor.health
              /\ monitor'.health # NoHealth) =>
                 /\ monitor'.health.status =
                        HealthOf(monitor.metrics.requests.failed,
                                 monitor.metrics.requests.total).status
                 /\ monitor'.health.statusCode =
                        HealthOf(monitor.metrics.requests.failed,
                                 monitor.metrics.requests.total).statusCode
      ]_vars

\* the last n elements of seq
Suffix(seq, n) ==
    IF Len(seq) <= n THEN seq ELSE SubSeq(seq, Len(seq) - n + 1, Len(seq))

RECURSIVE SumOfCounts(_, _)
SumOfCounts(byEndpoint, endpoints) ==
    IF endpoints = {} THEN 0
    ELSE LET endpoint == CHOOSE e \in endpoints : TRUE
         IN  byEndpoint[endpoint].count + SumOfCounts(byEndpoint, endpoints \ {endpoint})

\* C29: responseTimeHistory never holds more entries than its limit and no
\* lastSeenHistory of an agent more than its limit; a logged request or
\* activity is appended at the end and only the oldest entry is dropped, so
\* that the histories hold the most recent entries in arrival order; and
\* requests.total is requests.successful + requests.failed and is the sum of
\* the counts in byEndpoint.
C29_HistoriesAndTotals ==
    [][monitor'.pc # "none" =>
          LET after == monitor'.metrics
          IN  /\ Len(after.requests.responseTimeHistory) <= ResponseTimeHistoryLimit
              /\ \A agentId \in DOMAIN after.agents.lastSeenHistory :
                     Len(after.agents.lastSeenHistory[agentId]) <= LastSeenHistoryLimit
              /\ after.requests.total = after.requests.successful + after.requests.failed
              /\ after.requests.total =
                     SumOfCounts(after.requests.byEndpoint, DOMAIN after.requests.byEndpoint)
              /\ (monitor.pc # "none" /\ monitor'.pc = monitor.pc
                  /\ after.requests.total = monitor.metrics.requests.total + 1) =>
                     \E request \in MonitorRequests :
                         after.requests.responseTimeHistory =
                             Suffix(Append(monitor.metrics.requests.responseTimeHistory,
                                           [timestamp |-> now,
                                            responseTime |-> request.responseTime]),
                                    ResponseTimeHistoryLimit)
              /\ (monitor.pc # "none" /\ monitor'.pc = monitor.pc
                  /\ after.agents.lastSeenHistory # monitor.metrics.agents.lastSeenHistory
                  /\ DOMAIN monitor.metrics.agents.lastSeenHistory
                         \subseteq DOMAIN after.agents.lastSeenHistory) =>
                     \E agentId \in DOMAIN after.agents.lastSeenHistory :
                         /\ after.agents.lastSeenHistory[agentId] =
                                Suffix(Append(IF agentId \in DOMAIN monitor.metrics.agents.lastSeenHistory
                                              THEN monitor.metrics.agents.lastSeenHistory[agentId]
                                              ELSE <<>>, now),
                                       LastSeenHistoryLimit)
                         /\ \A other \in DOMAIN after.agents.lastSeenHistory \ {agentId} :
                                /\ other \in DOMAIN monitor.metrics.agents.lastSeenHistory
                                /\ after.agents.lastSeenHistory[other] =
                                       monitor.metrics.agents.lastSeenHistory[other]
      ]_vars

\* more requests and more activity were logged than the histories keep, and
\* the histories are full
C29_Witness ==
    /\ monitor.pc # "none"
    /\ monitor.metrics.requests.total > ResponseTimeHistoryLimit
    /\ Len(monitor.metrics.requests.responseTimeHistory) = ResponseTimeHistoryLimit
    /\ DOMAIN monitor.metrics.requests.byEndpoint # {}
    /\ \E agentId \in DOMAIN monitor.metrics.agents.lastSeenHistory :
           /\ Len(monitor.metrics.agents.lastSeenHistory[agentId]) = LastSeenHistoryLimit
           /\ monitor.metrics.agents.lastSeenHistory[agentId][1] > 0

-----------------------------------------------------------------------------
(* The subscription of the client *)

\* C30: when the socket of the client closes, exactly one timer of 5000 ms
\* for a new subscription is set; the client never has more than one live
\* socket; and a client whose socket has closed has an open one again later.
C30_ResubscribesAfterClose ==
    /\ [][/\ socket'.live <= 1
          /\ (socket.readyState # "CLOSED" /\ socket'.readyState = "CLOSED") =>
                 socket'.timers = <<ReconnectDelay>>
          /\ Len(socket'.timers) > Len(socket.timers) =>
                 socket.readyState \in {"CONNECTING", "OPEN"}
         ]_vars
    /\ (socket.readyState = "CLOSED") ~> (socket.readyState = "OPEN")

====
